---- MODULE Spec2Model ----
(***************************************************************************)
(* Session lifecycle and authenticated-request retry protocol of the       *)
(* Livebox API client.                                                     *)
(*                                                                         *)
(* The repository holds two generations of the same logic:                 *)
(*   impl = "authenticate" : internal/client (Client.Request,              *)
(*       Client.authenticate guarded by Client.mu, session.GetCredentials  *)
(*       and session.SetCredentials guarded by session.mu);                *)
(*   impl = "Renew" : package livebox (client.Request, client.request,     *)
(*       session.Renew and session.NewAuthenticatedRequest guarded by      *)
(*       session.lock).                                                    *)
(* Init picks one of them; every caller is one goroutine doing one call.   *)
(* Strings are sequences of tokens, "" is the empty sequence.              *)
(***************************************************************************)
EXTENDS Integers, Sequences, FiniteSets, TLC

\* Number of concurrent callers (goroutines each doing one Request).
NumCallers == 2

Procs == 1..NumCallers

\* Holder value of a free lock.
NoProc == 0

Impls == {"authenticate", "Renew"}

VARIABLES
    impl,           \* which generation of the code runs
    contextID,      \* session.contextID
    sessid,         \* session.sessid (NoCookie is the nil pointer)
    version,        \* session.version
    rw,             \* writer holding the session RWMutex (session.mu / session.lock)
    authMu,         \* holder of Client.mu
    pc,             \* position of every caller
    payload,        \* json.Marshal(in), computed once per call
    usedVersion,    \* local v of the retry loop
    authAttempted,  \* local authAttempted of the retry loop
    expected,       \* authenticate's currentVersion / the renew condition
    retTo,          \* call site of the running authenticate / Renew
    pending,        \* login result (contextID, cookie) not yet stored
    ret,            \* last return value of authenticate / Renew
    result,         \* error returned by Request (NotReturned while running)
    net,            \* HTTP exchange of every caller: the request while it is in
                    \* flight, then the response it got (the local res)
    issued,         \* router: number of logins it accepted
    sends,          \* history: authenticated sends of the call
    renewals,       \* history: renewals the retry loop of the call asked for
    initAttempts,   \* history: login requests sent by an initialization
    initFailures,   \* history: initialization logins that ended in an error
    wonLog          \* history: expected version of every successful renewal

vars == <<impl, contextID, sessid, version, rw, authMu, pc, payload, usedVersion,
          authAttempted, expected, retTo, pending, ret, result, net, issued,
          sends, renewals, initAttempts, initFailures, wonLog>>

\* Listeners the application may start with Client.Events.
NumListeners == 3

Listeners == 1..NumListeners

\* One keepalive goroutine at most is spawned for every Events call.
KeepAlives == 1..NumListeners

VARIABLES
    script,         \* router: per started listener, the answers to its polls, in order
    polled,         \* router: how many answers of the script each listener got
    evCall,         \* position of the Events call that starts each listener
    lpc,            \* position of each eventListener.Run goroutine
    channelID,      \* eventListener.channelID
    inflight,       \* req.ChannelID of the poll in flight (NoRequest: none)
    pollErr,        \* local err of Run, between the poll and the error item
    pendingEvents,  \* events of the last poll not yet sent to the channel
    channel,        \* eventListener.channel: its buffered items
    closed,         \* eventListener.channel is closed
    cancelled,      \* the listener's ctx is done
    emitted,        \* history: every item Run sent to the channel
    received,       \* history: every item the consumer received
    eventsCtr,      \* Client.eventsCtr
    eventsMu,       \* holder of Client.mu of package livebox
    eventsStopCh,   \* Client.eventsStopCh: index of its keepalive task (0 is nil)
    keepalives,     \* the keepalive goroutines spawned so far, in order
    keepaliveErr    \* err of the last Request of the keepalive goroutine, as logged

eventVars == <<script, polled, evCall, lpc, channelID, inflight, pollErr,
               pendingEvents, channel, closed, cancelled, emitted, received,
               eventsCtr, eventsMu, eventsStopCh, keepalives, keepaliveErr>>

VARIABLES
    sent,           \* router: the Set-Cookie lines of a login answer, as sent
    resHeader,      \* res.Header["Set-Cookie"] of that answer
    found           \* what findSessidCookie(res) returned

cookieVars == <<sent, resHeader, found>>

allVars == <<vars, eventVars, cookieVars>>

-----------------------------------------------------------------------------
(* Errors *)

Nil == [t |-> "nil"]
NotReturned == [t |-> "running"]
TransportError == [t |-> "transport"]
DecodeError == [t |-> "json"]
MarshalError == [t |-> "marshal"]
StatusError(code) == [t |-> "status", code |-> code]
SingleError(e) == [t |-> "Error", errors |-> <<e>>]
MultiError(es) == [t |-> "Errors", errors |-> es]
ErrInvalidCredentials == [t |-> "ErrInvalidCredentials"]
ErrInvalidPassword == [t |-> "ErrInvalidPassword"]
ErrEmptyContextID == [t |-> "ErrEmptyContextID"]
ErrEmptySessidCookie == [t |-> "ErrEmptySessidCookie"]
errSessionNotInitialized == [t |-> "errSessionNotInitialized"]

PermissionDeniedErrorCode == 13
StatusOK == 200
StatusUnauthorized == 401

IsApplicationError(err) == err.t \in {"Error", "Errors"}

\* Faulty variant of IsPermissionDeniedError: every application error matches.
IsPermissionDeniedErrorAny(err) == IsApplicationError(err)

\* errorMatches with f = "ErrorCode == PermissionDeniedErrorCode": any entry of
\* a multi-error, or the single error.
IsPermissionDeniedError(err) ==
    /\ IsApplicationError(err)
    /\ \E i \in 1..Len(err.errors) : err.errors[i].code = PermissionDeniedErrorCode

\* The older IsPermissionDeniedError: errors.As to *Error and its code.
IsPermissionDeniedErrorOld(err) ==
    /\ err.t = "Error"
    /\ err.errors[1].code = PermissionDeniedErrorCode

-----------------------------------------------------------------------------
(* Strings, cookies, headers *)

EmptyString == << >>
NoCookie == [name |-> << >>, value |-> << >>]

sessidCookieNameSuffix == "/sessid"
patchedSessidCookieNameSuffix == "_sessid"
authorizationHeaderLogin == <<"X-Sah-Login">>

\* strings.Replace(s, old, new, 1) on a token sequence.
RECURSIVE ReplaceFirst(_, _, _)
ReplaceFirst(s, old, new) ==
    IF s = << >> THEN << >>
    ELSE IF Head(s) = old THEN <<new>> \o Tail(s)
    ELSE <<Head(s)>> \o ReplaceFirst(Tail(s), old, new)

Contains(s, tok) == \E i \in 1..Len(s) : s[i] = tok
HasSuffix(s, tok) == Len(s) > 0 /\ s[Len(s)] = tok

\* net/http drops a Set-Cookie line whose cookie name is not a valid token;
\* "/" is not a token character.
ValidCookieName(name) == Len(name) > 0 /\ ~Contains(name, sessidCookieNameSuffix)

RECURSIVE Cookies(_)
Cookies(lines) ==
    IF lines = << >> THEN << >>
    ELSE IF ValidCookieName(Head(lines).name) THEN <<Head(lines)>> \o Cookies(Tail(lines))
    ELSE Cookies(Tail(lines))

\* First loop of findSessidCookie: patch the first line that holds "/sessid",
\* at its first occurrence in the line, name first and value next.
RECURSIVE PatchSetCookie(_)
PatchSetCookie(lines) ==
    IF lines = << >> THEN << >>
    ELSE IF Contains(Head(lines).name, sessidCookieNameSuffix)
         THEN <<[Head(lines) EXCEPT !.name =
                    ReplaceFirst(@, sessidCookieNameSuffix, patchedSessidCookieNameSuffix)]>>
              \o Tail(lines)
    ELSE IF Contains(Head(lines).value, sessidCookieNameSuffix)
         THEN <<[Head(lines) EXCEPT !.value =
                    ReplaceFirst(@, sessidCookieNameSuffix, patchedSessidCookieNameSuffix)]>>
              \o Tail(lines)
    ELSE <<Head(lines)>> \o PatchSetCookie(Tail(lines))

\* Second loop of findSessidCookie over the parsed cookies.
RECURSIVE FirstPatched(_)
FirstPatched(cs) ==
    IF cs = << >> THEN [ok |-> FALSE, cookie |-> NoCookie]
    ELSE IF HasSuffix(Head(cs).name, patchedSessidCookieNameSuffix)
         THEN [ok |-> TRUE,
               cookie |-> [Head(cs) EXCEPT !.name =
                    ReplaceFirst(@, patchedSessidCookieNameSuffix, sessidCookieNameSuffix)]]
    ELSE FirstPatched(Tail(cs))

findSessidCookie(res) == FirstPatched(Cookies(PatchSetCookie(res.setCookie)))

\* fmt.Sprintf("X-Sah %s", contextID)
Authorization(ctx) == <<"X-Sah", " ">> \o ctx
\* fmt.Sprintf("%s=%s", sessid.Name, sessid.Value)
CookieHeader(c) == c.name \o <<"=">> \o c.value

-----------------------------------------------------------------------------
(* HTTP exchanges and the server *)

NoMsg == [dir |-> "none"]

EmptyBody ==
    [json |-> TRUE, null |-> FALSE, hasError |-> FALSE, error |-> 0,
     description |-> "", info |-> "", errors |-> << >>, contextID |-> << >>]

ErrorEntry(code, description, info) ==
    [code |-> code, description |-> description, info |-> info]

HTTPResponse(transport, status, body, setCookie) ==
    [dir |-> "resp", transport |-> transport, status |-> status, body |-> body,
     setCookie |-> setCookie]

SingleErrorBody(code, description, info) ==
    [EmptyBody EXCEPT !.hasError = TRUE, !.error = code,
                      !.description = description, !.info = info]

MultiErrorBody(es) == [EmptyBody EXCEPT !.hasError = TRUE, !.errors = es]

\* What the router may answer to an authenticated request.
Responses ==
    { HTTPResponse(FALSE, 0, EmptyBody, << >>),
      HTTPResponse(TRUE, 500, EmptyBody, << >>),
      HTTPResponse(TRUE, StatusOK, EmptyBody, << >>),
      HTTPResponse(TRUE, StatusOK,
                   SingleErrorBody(PermissionDeniedErrorCode, "Permission denied", ""), << >>),
      HTTPResponse(TRUE, StatusOK, SingleErrorBody(1, "Invalid argument", ""), << >>),
      HTTPResponse(TRUE, StatusOK, SingleErrorBody(0, "Invalid argument", ""), << >>),
      HTTPResponse(TRUE, StatusOK,
                   MultiErrorBody(<<ErrorEntry(1, "Invalid argument", ""),
                                    ErrorEntry(PermissionDeniedErrorCode, "Permission denied", "")>>),
                   << >>) }

SessidLine(n) == [name |-> <<"c0ffee", sessidCookieNameSuffix>>, value |-> <<ToString(n)>>]
OtherLine == [name |-> <<"lang">>, value |-> <<"fr">>]

\* What the router may answer to the n-th accepted login.
LoginResponses(n) ==
    { HTTPResponse(FALSE, 0, EmptyBody, << >>),
      HTTPResponse(TRUE, StatusUnauthorized, EmptyBody, << >>),
      HTTPResponse(TRUE, 500, EmptyBody, << >>),
      HTTPResponse(TRUE, StatusOK, SingleErrorBody(1, "Invalid argument", ""), << >>),
      HTTPResponse(TRUE, StatusOK, EmptyBody, <<SessidLine(n)>>),
      HTTPResponse(TRUE, StatusOK, [EmptyBody EXCEPT !.contextID = <<ToString(n)>>],
                   <<OtherLine>>),
      HTTPResponse(TRUE, StatusOK, [EmptyBody EXCEPT !.contextID = <<ToString(n)>>],
                   <<OtherLine, SessidLine(n)>>) }

\* bytes.TrimSuffix(b, []byte("null"))
TrimNull(b) == [b EXCEPT !.null = FALSE]

\* json.Unmarshal succeeds on a well-formed document with nothing after it.
Unmarshals(b) == b.json /\ ~b.null

\* handleRequestError of internal/client.
handleRequestError(b) ==
    IF ~b.hasError THEN Nil
    ELSE IF ~Unmarshals(b) THEN DecodeError
    ELSE IF b.error # 0 \/ b.description # "" \/ b.info # ""
         THEN SingleError(ErrorEntry(b.error, b.description, b.info))
    ELSE IF Len(b.errors) > 0 THEN MultiError(b.errors)
    ELSE Nil

\* handleRequestError of internal/http: only the first error is returned.
handleRequestErrorOld(b) ==
    IF ~Unmarshals(b) THEN DecodeError
    ELSE IF b.error # 0 THEN SingleError(ErrorEntry(b.error, b.description, b.info))
    ELSE IF Len(b.errors) > 0 THEN SingleError(b.errors[1])
    ELSE Nil

\* Client.doRequest of internal/client: the error it returns.
doRequest(res) ==
    IF ~res.transport THEN TransportError
    ELSE IF res.status # StatusOK THEN StatusError(res.status)
    ELSE LET b == TrimNull(res.body)
         IN  IF handleRequestError(b) # Nil THEN handleRequestError(b)
             ELSE IF ~Unmarshals(b) THEN DecodeError
             ELSE Nil

\* Client.SendRequest of internal/http: the error it returns.
SendRequest(res) ==
    IF ~res.transport THEN TransportError
    ELSE IF res.status # StatusOK THEN StatusError(res.status)
    ELSE IF handleRequestErrorOld(res.body) # Nil THEN handleRequestErrorOld(res.body)
    ELSE IF ~Unmarshals(res.body) THEN DecodeError
    ELSE Nil

\* Faulty variant of LoginError: the status 401 is not told apart, and the
\* contextID and the cookie are not looked at.
LoginErrorUnmapped(res) == doRequest(res)

\* Lines 225-242 of Client.authenticate: the error of a login exchange.
LoginError(res) ==
    LET err == doRequest(res)
    IN  IF err # Nil
        THEN IF err.t = "status" /\ res.status = StatusUnauthorized
             THEN ErrInvalidCredentials ELSE err
        ELSE IF res.body.contextID = EmptyString THEN ErrEmptyContextID
        ELSE IF ~findSessidCookie(res).ok THEN ErrEmptySessidCookie
        ELSE Nil

\* Lines 138-155 of session.Renew: the error of a login exchange.
LoginErrorOld(res) ==
    LET err == SendRequest(res)
    IN  IF err # Nil
        THEN IF err.t = "status" /\ err.code = StatusUnauthorized
             THEN ErrInvalidPassword ELSE err
        ELSE IF res.body.contextID = EmptyString THEN ErrEmptyContextID
        ELSE IF ~findSessidCookie(res).ok THEN ErrEmptySessidCookie
        ELSE Nil

-----------------------------------------------------------------------------
(* The session store *)

\* Faulty variant of GetCredentials: the version == 0 test is missing.
GetCredentialsUnchecked ==
    [authorization |-> Authorization(contextID), cookie |-> CookieHeader(sessid),
     version |-> version]

\* session.GetCredentials: (authorization, cookie, version).
GetCredentials ==
    IF version = 0
    THEN [authorization |-> EmptyString, cookie |-> EmptyString, version |-> 0]
    ELSE [authorization |-> Authorization(contextID), cookie |-> CookieHeader(sessid),
          version |-> version]

\* Faulty variant of NextVersion: the version bumped twice.
NextVersionTwice(n) == n + 2

\* s.version++
NextVersion(n) == n + 1

\* Faulty variant of CanLock: the lock is not exclusive.
CanLockAlways(holder) == TRUE

\* A sync.Mutex / sync.RWMutex can be taken for writing when nobody holds it.
\* Read sections hold no blocking call and are modelled as one step, so the only
\* holder ever recorded is a writer.
CanLock(holder) == holder = NoProc

\* Faulty variant of CanRLock: a reader does not wait for the writer.
CanRLockAlways(holder) == TRUE

\* RLock succeeds when no writer holds the lock.
CanRLock(holder) == holder = NoProc

\* Faulty variant of Unlocked: the Unlock is forgotten.
UnlockedNever(holder, p) == holder

\* The deferred Unlock of p.
Unlocked(holder, p) == IF holder = p THEN NoProc ELSE holder

\* Faulty variant of ShouldRenew: only a session of version 0 is renewed.
ShouldRenewInitOnly(current, want) == current = want /\ want = 0

\* Faulty variant of ShouldRenew: no session is ever renewed.
ShouldRenewNever(current, want) == FALSE

\* Faulty variants of ShouldRenew: the test dropped, and the test made with >=.
ShouldRenewAlways(current, want) == TRUE
ShouldRenewAtLeast(current, want) == current >= want

\* renewIfNotInitialized / renewIfVersionIsCurrent(v), and the version test of
\* authenticate: renew only when the session is still at the expected version.
ShouldRenew(current, want) == current = want

-----------------------------------------------------------------------------
(* The initial state *)

\* The request of a call: request.New("IoTService", "getStatus", nil), as the
\* keepalive sends it.
Input == "getStatus"

\* json.Marshal(in)
Marshal(in) == <<"{", in, "}">>

NoReturn == [renewed |-> FALSE, err |-> NotReturned]
NoPending == [contextID |-> EmptyString, cookie |-> NoCookie]

\* The request in flight of a listener that has none.
NoRequest == -1

\* No listener is started: the zero values of the fields of events.go.
EventsIdle ==
    /\ polled = [l \in Listeners |-> 0]
    /\ evCall = [l \in Listeners |-> "none"]
    /\ lpc = [l \in Listeners |-> "new"]
    /\ channelID = [l \in Listeners |-> 0]
    /\ inflight = [l \in Listeners |-> NoRequest]
    /\ pollErr = [l \in Listeners |-> Nil]
    /\ pendingEvents = [l \in Listeners |-> << >>]
    /\ channel = [l \in Listeners |-> << >>]
    /\ closed = [l \in Listeners |-> FALSE]
    /\ cancelled = [l \in Listeners |-> FALSE]
    /\ emitted = [l \in Listeners |-> << >>]
    /\ received = [l \in Listeners |-> << >>]
    /\ eventsCtr = 0
    /\ eventsMu = NoProc
    /\ eventsStopCh = 0
    /\ keepalives = << >>
    /\ keepaliveErr = Nil

\* findSessidCookie has not returned.
NotFound == [called |-> FALSE, ok |-> FALSE, cookie |-> NoCookie]

\* No login answer is looked at on its own.
CookieIdle ==
    /\ sent = << >>
    /\ resHeader = << >>
    /\ found = NotFound

\* No caller has started: the zero values of the session and of the locals.
SessionIdle ==
    /\ contextID = EmptyString
    /\ sessid = NoCookie
    /\ version = 0
    /\ rw = NoProc
    /\ authMu = NoProc
    /\ pc = [p \in Procs |-> "idle"]
    /\ payload = [p \in Procs |-> << >>]
    /\ usedVersion = [p \in Procs |-> 0]
    /\ authAttempted = [p \in Procs |-> FALSE]
    /\ expected = [p \in Procs |-> 0]
    /\ retTo = [p \in Procs |-> "none"]
    /\ pending = [p \in Procs |-> NoPending]
    /\ ret = [p \in Procs |-> NoReturn]
    /\ result = [p \in Procs |-> NotReturned]
    /\ net = [p \in Procs |-> NoMsg]
    /\ issued = 0
    /\ sends = [p \in Procs |-> 0]
    /\ renewals = [p \in Procs |-> 0]
    /\ initAttempts = 0
    /\ initFailures = 0
    /\ wonLog = << >>

\* The callers of Request on a new client; no listener is started.
Init ==
    /\ impl \in Impls
    /\ SessionIdle
    /\ script = << >>
    /\ EventsIdle
    /\ CookieIdle

-----------------------------------------------------------------------------
(* Shared pieces of the actions *)

LoginRequest ==
    [dir |-> "req", login |-> TRUE,
     header |-> [name |-> "Authorization", value |-> authorizationHeaderLogin],
     cookie |-> EmptyString, body |-> <<"{", "createContext", "}">>, version |-> 0]

\* newRequest of internal/client: every authorization but the login one goes
\* to the x-context header as strings.Split(authorization, " ")[1]; the split
\* turns the separator into a boundary, so the context is what follows the
\* second token of the model's string.  An empty authorization has no second
\* part: the index panics.
newRequestPanics(authorization) ==
    authorization # authorizationHeaderLogin /\ ~Contains(authorization, " ")

newRequestHeader(authorization) ==
    IF authorization # authorizationHeaderLogin
    THEN [name |-> "x-context", value |-> SubSeq(authorization, 3, Len(authorization))]
    ELSE [name |-> "Authorization", value |-> authorization]

\* newRequest of package livebox: the authorization is sent as it is.
newRequestHeaderOld(authorization) == [name |-> "Authorization", value |-> authorization]

\* Line 137 of Client.Request: authAttempted, err = c.authenticate(ctx, v).
AuthAttemptedAfter(attempted) == attempted

\* Line 98 of client.request: authAttempted = true.
AuthAttemptedAfterOld(renewed) == TRUE

\* Request returns err: its locals go out of scope.
Finish(p, err) ==
    /\ pc' = [pc EXCEPT ![p] = "done"]
    /\ result' = [result EXCEPT ![p] = err]
    /\ payload' = [payload EXCEPT ![p] = << >>]
    /\ usedVersion' = [usedVersion EXCEPT ![p] = 0]
    /\ authAttempted' = [authAttempted EXCEPT ![p] = FALSE]
    /\ expected' = [expected EXCEPT ![p] = 0]
    /\ retTo' = [retTo EXCEPT ![p] = "none"]

\* Faulty variant of Returned: the call site goes on whatever the error is.
ReturnedIgnoringError(p, renewed, err) ==
    /\ ret' = [ret EXCEPT ![p] = [renewed |-> renewed, err |-> err]]
    /\ wonLog' = IF renewed /\ err = Nil THEN Append(wonLog, expected[p]) ELSE wonLog
    /\ pc' = [pc EXCEPT ![p] = IF retTo[p] = "init" THEN "marshal" ELSE "newReq"]
    /\ authAttempted' = [authAttempted EXCEPT ![p] = IF retTo[p] # "retry" THEN @ ELSE TRUE]
    /\ expected' = [expected EXCEPT ![p] = 0]
    /\ retTo' = [retTo EXCEPT ![p] = "none"]
    /\ UNCHANGED <<result, payload, usedVersion>>

\* authenticate / Renew returns (renewed, err) to the call site retTo[p], and
\* the call site goes on: both sites return err when it is not nil.
Returned(p, renewed, err) ==
    /\ ret' = [ret EXCEPT ![p] = [renewed |-> renewed, err |-> err]]
    /\ wonLog' = IF renewed /\ err = Nil THEN Append(wonLog, expected[p]) ELSE wonLog
    /\ IF err # Nil
       THEN Finish(p, err)
       ELSE /\ pc' = [pc EXCEPT ![p] = IF retTo[p] = "init" THEN "marshal" ELSE "newReq"]
            /\ authAttempted' = [authAttempted EXCEPT ![p] =
                    IF retTo[p] # "retry" THEN @
                    ELSE IF impl = "authenticate" THEN AuthAttemptedAfter(renewed)
                    ELSE AuthAttemptedAfterOld(renewed)]
            /\ expected' = [expected EXCEPT ![p] = 0]
            /\ retTo' = [retTo EXCEPT ![p] = "none"]
            /\ UNCHANGED <<result, payload, usedVersion>>

returnedVars == <<ret, wonLog, pc, result, payload, usedVersion, authAttempted,
                  expected, retTo>>

SendLogin(p) ==
    /\ net' = [net EXCEPT ![p] = LoginRequest]
    /\ pc' = [pc EXCEPT ![p] = "loginWait"]
    /\ initAttempts' = IF retTo[p] = "init" THEN initAttempts + 1 ELSE initAttempts

\* The router accepted the login when it sent a context and a sessid cookie.
Accepted(r) ==
    /\ r.transport /\ r.status = StatusOK
    /\ r.body.contextID # EmptyString
    /\ \E i \in 1..Len(r.setCookie) : Contains(r.setCookie[i].name, sessidCookieNameSuffix)

\* The login exchange of p ends with response r and error err.
LoginDone(p, r, err) ==
    /\ net' = [net EXCEPT ![p] = r]
    /\ issued' = IF Accepted(r) THEN issued + 1 ELSE issued
    /\ initFailures' = IF err # Nil /\ retTo[p] = "init" THEN initFailures + 1
                     ELSE initFailures

-----------------------------------------------------------------------------
(* internal/client: Client.Request, Client.authenticate, session *)

\* Client.Request, lines 104-110: the first GetCredentials.
Request(p) ==
    /\ impl = "authenticate"
    /\ pc[p] = "idle"
    /\ CanRLock(rw)
    /\ IF GetCredentials.version = 0
       THEN /\ expected' = [expected EXCEPT ![p] = GetCredentials.version]
            /\ retTo' = [retTo EXCEPT ![p] = "init"]
            /\ pc' = [pc EXCEPT ![p] = "authLock"]
       ELSE /\ pc' = [pc EXCEPT ![p] = "marshal"]
            /\ UNCHANGED <<expected, retTo>>
    /\ UNCHANGED <<impl, contextID, sessid, version, rw, authMu, payload, usedVersion,
                   authAttempted, pending, ret, result, net, issued, sends, renewals,
                   initAttempts, initFailures, wonLog>>
    /\ UNCHANGED <<eventVars, cookieVars>>

\* Client.authenticate, line 204: c.mu.Lock().
authenticate_Lock(p) ==
    /\ impl = "authenticate"
    /\ pc[p] = "authLock"
    /\ CanLock(authMu)
    /\ authMu' = p
    /\ pc' = [pc EXCEPT ![p] = "authCheck"]
    /\ UNCHANGED <<impl, contextID, sessid, version, rw, payload, usedVersion,
                   authAttempted, expected, retTo, pending, ret, result, net, issued,
                   sends, renewals, initAttempts, initFailures, wonLog>>
    /\ UNCHANGED <<eventVars, cookieVars>>

\* Client.authenticate, lines 207-225: the version test, then the login request.
authenticate_Check(p) ==
    /\ impl = "authenticate"
    /\ pc[p] = "authCheck"
    /\ CanRLock(rw)
    /\ IF ~ShouldRenew(GetCredentials.version, expected[p])
       THEN /\ authMu' = Unlocked(authMu, p)
            /\ Returned(p, FALSE, Nil)
            /\ UNCHANGED <<net, initAttempts>>
       ELSE /\ SendLogin(p)
            /\ UNCHANGED <<authMu, ret, wonLog, result, payload, usedVersion,
                           authAttempted, expected, retTo>>
    /\ UNCHANGED <<impl, contextID, sessid, version, rw, pending, issued, sends,
                   renewals, initFailures>>
    /\ UNCHANGED <<eventVars, cookieVars>>

\* Client.authenticate, lines 225-242: the router answers the login with r.
authenticate_Login(p) ==
    /\ impl = "authenticate"
    /\ pc[p] = "loginWait"
    /\ \E r \in LoginResponses(issued + 1) :
          /\ LoginDone(p, r, LoginError(r))
          /\ IF LoginError(r) # Nil
             THEN /\ authMu' = Unlocked(authMu, p)
                  /\ Returned(p, TRUE, LoginError(r))
                  /\ UNCHANGED pending
             ELSE /\ pending' = [pending EXCEPT ![p] =
                          [contextID |-> r.body.contextID,
                           cookie |-> findSessidCookie(r).cookie]]
                  /\ pc' = [pc EXCEPT ![p] = "setCred"]
                  /\ UNCHANGED <<authMu, ret, wonLog, result, payload, usedVersion,
                                 authAttempted, expected, retTo>>
    /\ UNCHANGED <<impl, contextID, sessid, version, rw, sends, renewals, initAttempts>>
    /\ UNCHANGED <<eventVars, cookieVars>>

\* session.SetCredentials, lines 35-38: s.mu.Lock(); s.contextID = contextID.
SetCredentials_Lock(p) ==
    /\ impl = "authenticate"
    /\ pc[p] = "setCred"
    /\ CanLock(rw)
    /\ rw' = p
    /\ contextID' = pending[p].contextID
    /\ pc' = [pc EXCEPT ![p] = "setSessid"]
    /\ UNCHANGED <<impl, sessid, version, authMu, payload, usedVersion, authAttempted,
                   expected, retTo, pending, ret, result, net, issued, sends, renewals,
                   initAttempts, initFailures, wonLog>>
    /\ UNCHANGED <<eventVars, cookieVars>>

\* session.SetCredentials, line 39: s.sessid = sessid.
SetCredentials_Sessid(p) ==
    /\ impl = "authenticate"
    /\ pc[p] = "setSessid"
    /\ sessid' = pending[p].cookie
    /\ pc' = [pc EXCEPT ![p] = "setVersion"]
    /\ UNCHANGED <<impl, contextID, version, rw, authMu, payload, usedVersion,
                   authAttempted, expected, retTo, pending, ret, result, net, issued,
                   sends, renewals, initAttempts, initFailures, wonLog>>
    /\ UNCHANGED <<eventVars, cookieVars>>

\* session.SetCredentials, lines 40-41 (s.version++, the deferred Unlock), then
\* Client.authenticate, line 247: return true, nil with c.mu released.
SetCredentials_Version(p) ==
    /\ impl = "authenticate"
    /\ pc[p] = "setVersion"
    /\ version' = NextVersion(version)
    /\ rw' = Unlocked(rw, p)
    /\ authMu' = Unlocked(authMu, p)
    /\ pending' = [pending EXCEPT ![p] = NoPending]
    /\ Returned(p, TRUE, Nil)
    /\ UNCHANGED <<impl, contextID, sessid, net, issued, sends, renewals,
                   initAttempts, initFailures>>
    /\ UNCHANGED <<eventVars, cookieVars>>

\* Client.Request, lines 112-116 (client.request, lines 68-72): json.Marshal.
Request_Marshal(p) ==
    /\ pc[p] = "marshal"
    /\ payload' = [payload EXCEPT ![p] = Marshal(Input)]
    /\ pc' = [pc EXCEPT ![p] = "newReq"]
    /\ UNCHANGED <<impl, contextID, sessid, version, rw, authMu, usedVersion,
                   authAttempted, expected, retTo, pending, ret, result, net, issued,
                   sends, renewals, initAttempts, initFailures, wonLog>>
    /\ UNCHANGED <<eventVars, cookieVars>>

\* Client.newAuthenticatedRequest, lines 153-166, and the send of line 127.
newAuthenticatedRequest(p) ==
    /\ impl = "authenticate"
    /\ pc[p] = "newReq"
    /\ CanRLock(rw)
    /\ IF newRequestPanics(GetCredentials.authorization)
       THEN /\ Finish(p, [t |-> "panic"])
            /\ UNCHANGED <<net, sends>>
       ELSE /\ net' = [net EXCEPT ![p] =
                    [dir |-> "req", login |-> FALSE,
                     header |-> newRequestHeader(GetCredentials.authorization),
                     cookie |-> GetCredentials.cookie, body |-> payload[p],
                     version |-> GetCredentials.version]]
            /\ usedVersion' = [usedVersion EXCEPT ![p] = GetCredentials.version]
            /\ sends' = [sends EXCEPT ![p] = @ + 1]
            /\ pc' = [pc EXCEPT ![p] = "sendWait"]
            /\ UNCHANGED <<result, payload, authAttempted, expected, retTo>>
    /\ UNCHANGED <<impl, contextID, sessid, version, rw, authMu, pending, ret, issued,
                   renewals, initAttempts, initFailures, wonLog>>
    /\ UNCHANGED <<eventVars, cookieVars>>

\* Client.Request, lines 127-150: the router answers the authenticated send
\* with r.
Request_Response(p) ==
    /\ impl = "authenticate"
    /\ pc[p] = "sendWait"
    /\ \E r \in Responses :
        /\ net' = [net EXCEPT ![p] = r]
        /\ IF doRequest(r) # Nil /\ ~authAttempted[p] /\ IsPermissionDeniedError(doRequest(r))
           THEN /\ expected' = [expected EXCEPT ![p] = usedVersion[p]]
                /\ retTo' = [retTo EXCEPT ![p] = "retry"]
                /\ renewals' = [renewals EXCEPT ![p] = @ + 1]
                /\ pc' = [pc EXCEPT ![p] = "authLock"]
                /\ UNCHANGED <<result, payload, usedVersion, authAttempted>>
           ELSE /\ Finish(p, doRequest(r))
                /\ UNCHANGED renewals
    /\ UNCHANGED <<impl, contextID, sessid, version, rw, authMu, pending, ret, issued,
                   sends, initAttempts, initFailures, wonLog>>
    /\ UNCHANGED <<eventVars, cookieVars>>

-----------------------------------------------------------------------------
(* package livebox: client.Request, client.request, session.Renew *)

\* client.Request, lines 53-57: Renew(renewIfNotInitialized) is always called.
RequestOld(p) ==
    /\ impl = "Renew"
    /\ pc[p] = "idle"
    /\ expected' = [expected EXCEPT ![p] = 0]
    /\ retTo' = [retTo EXCEPT ![p] = "init"]
    /\ pc' = [pc EXCEPT ![p] = "renewLock"]
    /\ UNCHANGED <<impl, contextID, sessid, version, rw, authMu, payload, usedVersion,
                   authAttempted, pending, ret, result, net, issued, sends, renewals,
                   initAttempts, initFailures, wonLog>>
    /\ UNCHANGED <<eventVars, cookieVars>>

\* session.Renew, line 117: s.lock.Lock().
Renew_Lock(p) ==
    /\ impl = "Renew"
    /\ pc[p] = "renewLock"
    /\ CanLock(rw)
    /\ rw' = p
    /\ pc' = [pc EXCEPT ![p] = "renewCheck"]
    /\ UNCHANGED <<impl, contextID, sessid, version, authMu, payload, usedVersion,
                   authAttempted, expected, retTo, pending, ret, result, net, issued,
                   sends, renewals, initAttempts, initFailures, wonLog>>
    /\ UNCHANGED <<eventVars, cookieVars>>

\* session.Renew, lines 120-138: the renew condition, then the login request.
Renew_Check(p) ==
    /\ impl = "Renew"
    /\ pc[p] = "renewCheck"
    /\ IF ~ShouldRenew(version, expected[p])
       THEN /\ rw' = Unlocked(rw, p)
            /\ Returned(p, FALSE, Nil)
            /\ UNCHANGED <<net, initAttempts>>
       ELSE /\ SendLogin(p)
            /\ UNCHANGED <<rw, ret, wonLog, result, payload, usedVersion,
                           authAttempted, expected, retTo>>
    /\ UNCHANGED <<impl, contextID, sessid, version, authMu, pending, issued, sends,
                   renewals, initFailures>>
    /\ UNCHANGED <<eventVars, cookieVars>>

\* session.Renew, lines 138-155: the router answers the login with r.
Renew_Login(p) ==
    /\ impl = "Renew"
    /\ pc[p] = "loginWait"
    /\ \E r \in LoginResponses(issued + 1) :
          /\ LoginDone(p, r, LoginErrorOld(r))
          /\ IF LoginErrorOld(r) # Nil
             THEN /\ rw' = Unlocked(rw, p)
                  /\ Returned(p, FALSE, LoginErrorOld(r))
                  /\ UNCHANGED pending
             ELSE /\ pending' = [pending EXCEPT ![p] =
                          [contextID |-> r.body.contextID,
                           cookie |-> findSessidCookie(r).cookie]]
                  /\ pc' = [pc EXCEPT ![p] = "storeContextID"]
                  /\ UNCHANGED <<rw, ret, wonLog, result, payload, usedVersion,
                                 authAttempted, expected, retTo>>
    /\ UNCHANGED <<impl, contextID, sessid, version, authMu, sends, renewals,
                   initAttempts>>
    /\ UNCHANGED <<eventVars, cookieVars>>

\* session.Renew, line 158: s.contextID = login.Data.ContextID.
Renew_ContextID(p) ==
    /\ impl = "Renew"
    /\ pc[p] = "storeContextID"
    /\ contextID' = pending[p].contextID
    /\ pc' = [pc EXCEPT ![p] = "storeSessid"]
    /\ UNCHANGED <<impl, sessid, version, rw, authMu, payload, usedVersion,
                   authAttempted, expected, retTo, pending, ret, result, net, issued,
                   sends, renewals, initAttempts, initFailures, wonLog>>
    /\ UNCHANGED <<eventVars, cookieVars>>

\* session.Renew, line 159: s.sessid = cookie.
Renew_Sessid(p) ==
    /\ impl = "Renew"
    /\ pc[p] = "storeSessid"
    /\ sessid' = pending[p].cookie
    /\ pc' = [pc EXCEPT ![p] = "storeVersion"]
    /\ UNCHANGED <<impl, contextID, version, rw, authMu, payload, usedVersion,
                   authAttempted, expected, retTo, pending, ret, result, net, issued,
                   sends, renewals, initAttempts, initFailures, wonLog>>
    /\ UNCHANGED <<eventVars, cookieVars>>

\* session.Renew, lines 160-162: s.version++; return true, nil; deferred Unlock.
Renew_Version(p) ==
    /\ impl = "Renew"
    /\ pc[p] = "storeVersion"
    /\ version' = NextVersion(version)
    /\ rw' = Unlocked(rw, p)
    /\ pending' = [pending EXCEPT ![p] = NoPending]
    /\ Returned(p, TRUE, Nil)
    /\ UNCHANGED <<impl, contextID, sessid, authMu, net, issued, sends, renewals,
                   initAttempts, initFailures>>
    /\ UNCHANGED <<eventVars, cookieVars>>

\* session.NewAuthenticatedRequest, lines 179-197, and the send of client.request,
\* line 83.
NewAuthenticatedRequest(p) ==
    /\ impl = "Renew"
    /\ pc[p] = "newReq"
    /\ CanRLock(rw)
    /\ IF version = 0
       THEN /\ Finish(p, errSessionNotInitialized)
            /\ UNCHANGED <<net, sends>>
       ELSE /\ net' = [net EXCEPT ![p] =
                    [dir |-> "req", login |-> FALSE,
                     header |-> newRequestHeaderOld(Authorization(contextID)),
                     cookie |-> CookieHeader(sessid), body |-> payload[p],
                     version |-> version]]
            /\ usedVersion' = [usedVersion EXCEPT ![p] = version]
            /\ sends' = [sends EXCEPT ![p] = @ + 1]
            /\ pc' = [pc EXCEPT ![p] = "sendWait"]
            /\ UNCHANGED <<result, payload, authAttempted, expected, retTo>>
    /\ UNCHANGED <<impl, contextID, sessid, version, rw, authMu, pending, ret, issued,
                   renewals, initAttempts, initFailures, wonLog>>
    /\ UNCHANGED <<eventVars, cookieVars>>

\* client.request, lines 83-108: the router answers the authenticated send
\* with r.
request_Response(p) ==
    /\ impl = "Renew"
    /\ pc[p] = "sendWait"
    /\ \E r \in Responses :
        /\ net' = [net EXCEPT ![p] = r]
        /\ IF SendRequest(r) # Nil /\ ~authAttempted[p]
              /\ IsPermissionDeniedErrorOld(SendRequest(r))
           THEN /\ expected' = [expected EXCEPT ![p] = usedVersion[p]]
                /\ retTo' = [retTo EXCEPT ![p] = "retry"]
                /\ renewals' = [renewals EXCEPT ![p] = @ + 1]
                /\ pc' = [pc EXCEPT ![p] = "renewLock"]
                /\ UNCHANGED <<result, payload, usedVersion, authAttempted>>
           ELSE /\ Finish(p, SendRequest(r))
                /\ UNCHANGED renewals
    /\ UNCHANGED <<impl, contextID, sessid, version, rw, authMu, pending, ret, issued,
                   sends, initAttempts, initFailures, wonLog>>
    /\ UNCHANGED <<eventVars, cookieVars>>

-----------------------------------------------------------------------------
(* The specification *)

Next ==
    \E p \in Procs :
        \/ Request(p)
        \/ authenticate_Lock(p)
        \/ authenticate_Check(p)
        \/ authenticate_Login(p)
        \/ SetCredentials_Lock(p)
        \/ SetCredentials_Sessid(p)
        \/ SetCredentials_Version(p)
        \/ Request_Marshal(p)
        \/ newAuthenticatedRequest(p)
        \/ Request_Response(p)
        \/ RequestOld(p)
        \/ Renew_Lock(p)
        \/ Renew_Check(p)
        \/ Renew_Login(p)
        \/ Renew_ContextID(p)
        \/ Renew_Sessid(p)
        \/ Renew_Version(p)
        \/ NewAuthenticatedRequest(p)
        \/ request_Response(p)

Spec == Init /\ [][Next]_allVars

\* The steps of caller p.
Step(p) ==
    \/ Request(p)
    \/ authenticate_Lock(p)
    \/ authenticate_Check(p)
    \/ authenticate_Login(p)
    \/ SetCredentials_Lock(p)
    \/ SetCredentials_Sessid(p)
    \/ SetCredentials_Version(p)
    \/ Request_Marshal(p)
    \/ newAuthenticatedRequest(p)
    \/ Request_Response(p)
    \/ RequestOld(p)
    \/ Renew_Lock(p)
    \/ Renew_Check(p)
    \/ Renew_Login(p)
    \/ Renew_ContextID(p)
    \/ Renew_Sessid(p)
    \/ Renew_Version(p)
    \/ NewAuthenticatedRequest(p)
    \/ request_Response(p)

\* Fair scheduling of the goroutines and a router that answers every request:
\* a caller that can go on taking a step eventually takes one.
FairSpec == Spec /\ \A p \in Procs : WF_vars(Step(p))

-----------------------------------------------------------------------------
(* package livebox, events.go: Client.Events, eventListener.Run, keepalive *)

\* Polls the router answers to one listener in a run.
MaxPolls == 2

\* Capacity of eventListener.channel (128 in Client.Events).
ChannelCapacity == 1

\* The error of a request whose context is done.
ContextCanceled == [t |-> "context canceled"]

\* Faulty variant of IsChannelDoesNotExistError: no error matches.
IsChannelDoesNotExistErrorNever(err) == FALSE

\* errorMatches with f = "Info == channel does not exist".
IsChannelDoesNotExistError(err) ==
    /\ IsApplicationError(err)
    /\ \E i \in 1..Len(err.errors) : err.errors[i].info = "channel does not exist"

\* Faulty variant of IsFunctionExecutionFailedError: no error matches.
IsFunctionExecutionFailedErrorNever(err) == FALSE

\* errorMatches with f = "Description == Function execution failed".
IsFunctionExecutionFailedError(err) ==
    /\ IsApplicationError(err)
    /\ \E i \in 1..Len(err.errors) : err.errors[i].description = "Function execution failed"

\* What c.client.Request(ctx, ContentTypeEvent, req, &events) gives back to
\* requestEvent: an error, or the decoded response.Events.
PollOK(id, evs) == [err |-> Nil, channelid |-> id, events |-> evs]
PollError(err) == [err |-> err, channelid |-> 0, events |-> << >>]

StaleDescription == PollError(SingleError(ErrorEntry(1, "Function execution failed", "")))
StaleInfo == PollError(SingleError(ErrorEntry(1, "", "channel does not exist")))

PollResponses ==
    { PollOK(5, <<"e1">>),
      PollOK(5, <<"e2">>),
      PollOK(7, <<"e1", "e2">>),
      StaleDescription,
      StaleInfo,
      PollError(TransportError),
      PollError(StatusError(500)),
      PollError(SingleError(ErrorEntry(PermissionDeniedErrorCode, "Permission denied", ""))),
      PollError(ErrInvalidCredentials) }

\* A stale channel, an event, a transport error, an event.
Scenario ==
    <<StaleDescription, PollOK(5, <<"e1">>), PollError(TransportError), PollOK(5, <<"e2">>)>>

RECURSIVE SeqsUpTo(_, _)
SeqsUpTo(S, n) ==
    IF n = 0 THEN {<< >>}
    ELSE SeqsUpTo(S, n - 1) \cup {Append(q, x) : q \in {t \in SeqsUpTo(S, n - 1) : Len(t) = n - 1}, x \in S}

\* The answers of the router to the polls of one listener; a poll beyond them
\* is a long poll that stays without answer.
Scripts == SeqsUpTo(PollResponses, MaxPolls) \cup {Scenario}

\* The answers when several listeners run: the router answers one poll at most.
ShortScripts == {<< >>, <<PollOK(5, <<"e1">>)>>, <<PollError(TransportError)>>}

\* Faulty variant of EventItem: the item does not carry the event.
EventItemEmpty(e) == [event |-> "nil", error |-> Nil]

\* The items of response.Event.
NoEvent == "nil"
EventItem(e) == [event |-> e, error |-> Nil]
ErrorItem(err) == [event |-> NoEvent, error |-> err]

\* Faulty variant of ResetChannelID: the channel id is kept after an error.
ResetChannelIDKeep(id) == id

\* Run, line 119: el.channelID = 0.
ResetChannelID(id) == 0

\* Faulty variant of AdoptChannelID: an id the router never gave.
AdoptChannelIDNext(events) == events.channelid + 1

\* Run, line 124: el.channelID = events.ChannelID.
AdoptChannelID(events) == events.channelid

\* Faulty variant of ctxDone: the context is never seen done.
ctxDoneNever(l) == FALSE

\* Faulty variant of ctxDone: the context is always seen done.
ctxDoneAlways(l) == TRUE

\* case <-ctx.Done() can proceed.
ctxDone(l) == cancelled[l]

\* Faulty variant of StartsKeepAlive: every start spawns a keepalive goroutine.
StartsKeepAliveAlways(ctr) == ctr >= 1

\* startEventSessionKeepAlive, line 57: c.eventsCtr == 1.
StartsKeepAlive(ctr) == ctr = 1

\* Faulty variant of SignalsStop: the stop signal is never sent.
SignalsStopNever(ctr) == FALSE

\* stopEventSessionKeepAlive, line 93: c.eventsCtr == 0.
SignalsStop(ctr) == ctr = 0

\* What c.client.Request gives back to the keepalive goroutine, lines 67-72.
KeepAliveResults == {Nil, TransportError}

\* Faulty variant of AfterKeepAlive: a failed keepalive call ends the goroutine.
AfterKeepAliveFatal(err) == IF err = Nil THEN "select" ELSE "stopped"

\* The keepalive goroutine, lines 72-76: the error is logged and nothing else,
\* the goroutine goes on to its select.
AfterKeepAlive(err) == "select"

\* One listener, every script.
InitEvents ==
    /\ impl = "authenticate"
    /\ SessionIdle
    /\ script \in [1..1 -> Scripts]
    /\ EventsIdle
    /\ CookieIdle

\* Every listener; one of them at most gets an answer to a poll.
InitKeepAlive ==
    /\ impl = "authenticate"
    /\ SessionIdle
    /\ script \in {f \in [Listeners -> ShortScripts] :
                      Cardinality({l \in Listeners : f[l] # << >>}) <= 1}
    /\ EventsIdle
    /\ CookieIdle

\* Client.Events, lines 20-26: the listener is made and go el.Run(ctx) starts;
\* Run, line 110: the first poll is sent with el.channelID.
Events(l) ==
    /\ l \in DOMAIN script
    /\ evCall[l] = "none"
    /\ evCall' = [evCall EXCEPT ![l] = "spawned"]
    /\ lpc' = [lpc EXCEPT ![l] = "poll"]
    /\ inflight' = [inflight EXCEPT ![l] = channelID[l]]
    /\ UNCHANGED <<script, polled, channelID, pollErr, pendingEvents, channel, closed,
                   cancelled, emitted, received, eventsCtr, eventsMu, eventsStopCh,
                   keepalives>>
    /\ UNCHANGED <<vars, cookieVars, keepaliveErr>>

\* Client.Events, lines 28-30: startEventSessionKeepAlive (lines 52-85), return.
startEventSessionKeepAlive(l) ==
    /\ evCall[l] = "spawned"
    /\ CanLock(eventsMu)
    /\ eventsCtr' = eventsCtr + 1
    /\ IF StartsKeepAlive(eventsCtr')
       THEN /\ keepalives' = Append(keepalives, "request")
            /\ eventsStopCh' = Len(keepalives) + 1
       ELSE UNCHANGED <<keepalives, eventsStopCh>>
    /\ evCall' = [evCall EXCEPT ![l] = "returned"]
    /\ UNCHANGED <<script, polled, lpc, channelID, inflight, pollErr, pendingEvents,
                   channel, closed, cancelled, emitted, received, eventsMu>>
    /\ UNCHANGED <<vars, cookieVars, keepaliveErr>>

\* What the poll in flight of l may come back with: the next answer of the
\* router, or the context's error once the context is done.
PollOutcomes(l) ==
    (IF polled[l] < Len(script[l])
     THEN {[r |-> script[l][polled[l] + 1], answered |-> 1]} ELSE {})
    \cup
    (IF cancelled[l] THEN {[r |-> PollError(ContextCanceled), answered |-> 0]} ELSE {})

\* requestEvent, lines 33-48, one Request coming back; then Run, lines 111-126.
requestEvent(l) ==
    /\ lpc[l] = "poll"
    /\ \E o \in PollOutcomes(l) :
        /\ polled' = [polled EXCEPT ![l] = @ + o.answered]
        /\ IF o.r.err # Nil /\ (IsChannelDoesNotExistError(o.r.err)
                                  \/ IsFunctionExecutionFailedError(o.r.err))
           THEN /\ inflight' = [inflight EXCEPT ![l] = 0]
                /\ UNCHANGED <<lpc, channelID, pollErr, pendingEvents>>
           ELSE IF o.r.err # Nil
           THEN /\ inflight' = [inflight EXCEPT ![l] = NoRequest]
                /\ IF ctxDone(l)
                   THEN /\ lpc' = [lpc EXCEPT ![l] = "close"]
                        /\ UNCHANGED pollErr
                   ELSE /\ lpc' = [lpc EXCEPT ![l] = "emitError"]
                        /\ pollErr' = [pollErr EXCEPT ![l] = o.r.err]
                /\ UNCHANGED <<channelID, pendingEvents>>
           ELSE /\ channelID' = [channelID EXCEPT ![l] = AdoptChannelID(o.r)]
                /\ pendingEvents' = [pendingEvents EXCEPT ![l] = o.r.events]
                /\ IF o.r.events = << >>
                   THEN /\ inflight' = [inflight EXCEPT ![l] = AdoptChannelID(o.r)]
                        /\ UNCHANGED lpc
                   ELSE /\ inflight' = [inflight EXCEPT ![l] = NoRequest]
                        /\ lpc' = [lpc EXCEPT ![l] = "emitEvent"]
                /\ UNCHANGED pollErr
    /\ UNCHANGED <<script, evCall, channel, closed, cancelled, emitted, received,
                   eventsCtr, eventsMu, eventsStopCh, keepalives>>
    /\ UNCHANGED <<vars, cookieVars, keepaliveErr>>

\* Run, lines 118-119: el.channel <- &response.Event{Error: err}; channelID = 0.
Run_EmitError(l) ==
    /\ lpc[l] = "emitError"
    /\ Len(channel[l]) < ChannelCapacity
    /\ channel' = [channel EXCEPT ![l] = Append(@, ErrorItem(pollErr[l]))]
    /\ emitted' = [emitted EXCEPT ![l] = Append(@, ErrorItem(pollErr[l]))]
    /\ channelID' = [channelID EXCEPT ![l] = ResetChannelID(@)]
    /\ pollErr' = [pollErr EXCEPT ![l] = Nil]
    /\ lpc' = [lpc EXCEPT ![l] = "sleep"]
    /\ UNCHANGED <<script, polled, evCall, inflight, pendingEvents, closed, cancelled,
                   received, eventsCtr, eventsMu, eventsStopCh, keepalives>>
    /\ UNCHANGED <<vars, cookieVars, keepaliveErr>>

\* Run, lines 120-121 and 110: the sleep is over, the next poll is sent.
Run_Sleep(l) ==
    /\ lpc[l] = "sleep"
    /\ lpc' = [lpc EXCEPT ![l] = "poll"]
    /\ inflight' = [inflight EXCEPT ![l] = channelID[l]]
    /\ UNCHANGED <<script, polled, evCall, channelID, pollErr, pendingEvents, channel,
                   closed, cancelled, emitted, received, eventsCtr, eventsMu,
                   eventsStopCh, keepalives>>
    /\ UNCHANGED <<vars, cookieVars, keepaliveErr>>

\* Run, lines 126-133: the select of one event; when both cases can proceed
\* either one is taken.  After the last event, line 110 sends the next poll.
Run_EmitEvent(l) ==
    /\ lpc[l] = "emitEvent"
    /\ \/ /\ ctxDone(l)
          /\ lpc' = [lpc EXCEPT ![l] = "close"]
          /\ pendingEvents' = [pendingEvents EXCEPT ![l] = << >>]
          /\ UNCHANGED <<channel, emitted, inflight>>
       \/ /\ Len(channel[l]) < ChannelCapacity
          /\ channel' = [channel EXCEPT ![l] = Append(@, EventItem(Head(pendingEvents[l])))]
          /\ emitted' = [emitted EXCEPT ![l] = Append(@, EventItem(Head(pendingEvents[l])))]
          /\ pendingEvents' = [pendingEvents EXCEPT ![l] = Tail(@)]
          /\ IF Tail(pendingEvents[l]) = << >>
             THEN /\ lpc' = [lpc EXCEPT ![l] = "poll"]
                  /\ inflight' = [inflight EXCEPT ![l] = channelID[l]]
             ELSE UNCHANGED <<lpc, inflight>>
    /\ UNCHANGED <<script, polled, evCall, channelID, pollErr, closed, cancelled,
                   received, eventsCtr, eventsMu, eventsStopCh, keepalives>>
    /\ UNCHANGED <<vars, cookieVars, keepaliveErr>>

\* Faulty variant of Run_Close: the channel is closed inside the loop, which
\* goes on.
Run_CloseInLoop(l) ==
    /\ lpc[l] = "close"
    /\ closed' = [closed EXCEPT ![l] = TRUE]
    /\ lpc' = [lpc EXCEPT ![l] = "sleep"]
    /\ UNCHANGED <<script, polled, evCall, channelID, inflight, pollErr, pendingEvents,
                   channel, cancelled, emitted, received, eventsCtr, eventsMu,
                   eventsStopCh, keepalives>>
    /\ UNCHANGED <<vars, cookieVars, keepaliveErr>>

\* Run, line 107, the deferred call that runs first: close(el.channel).
Run_Close(l) ==
    /\ lpc[l] = "close"
    /\ closed' = [closed EXCEPT ![l] = TRUE]
    /\ lpc' = [lpc EXCEPT ![l] = "stopLock"]
    /\ UNCHANGED <<script, polled, evCall, channelID, inflight, pollErr, pendingEvents,
                   channel, cancelled, emitted, received, eventsCtr, eventsMu,
                   eventsStopCh, keepalives>>
    /\ UNCHANGED <<vars, cookieVars, keepaliveErr>>

\* Run, line 106, the deferred stopEventSessionKeepAlive, lines 88-93: the lock
\* and the decrement; the mutex stays held while the stop signal is sent.
stopEventSessionKeepAlive(l) ==
    /\ lpc[l] = "stopLock"
    /\ CanLock(eventsMu)
    /\ eventsCtr' = eventsCtr - 1
    /\ IF SignalsStop(eventsCtr')
       THEN /\ eventsMu' = l
            /\ lpc' = [lpc EXCEPT ![l] = "stopSend"]
       ELSE /\ eventsMu' = Unlocked(eventsMu, l)
            /\ lpc' = [lpc EXCEPT ![l] = "done"]
    /\ UNCHANGED <<script, polled, evCall, channelID, inflight, pollErr, pendingEvents,
                   channel, closed, cancelled, emitted, received, eventsStopCh,
                   keepalives>>
    /\ UNCHANGED <<vars, cookieVars, keepaliveErr>>

\* stopEventSessionKeepAlive, line 94, c.eventsStopCh <- struct{}{}, meets the
\* keepalive goroutine's case <-ch of lines 77-79: the goroutine returns and
\* closes ch (line 63), the stopping call unlocks and returns.
stopEventSessionKeepAlive_Send(l) ==
    /\ lpc[l] = "stopSend"
    /\ eventsStopCh \in 1..Len(keepalives)
    /\ keepalives[eventsStopCh] = "select"
    /\ keepalives' = [keepalives EXCEPT ![eventsStopCh] = "stopped"]
    /\ eventsMu' = Unlocked(eventsMu, l)
    /\ lpc' = [lpc EXCEPT ![l] = "done"]
    /\ UNCHANGED <<script, polled, evCall, channelID, inflight, pollErr, pendingEvents,
                   channel, closed, cancelled, emitted, received, eventsCtr,
                   eventsStopCh>>
    /\ UNCHANGED <<vars, cookieVars, keepaliveErr>>

\* The keepalive goroutine, lines 66-74: its Request is over, its error is
\* only logged; the goroutine is at the select of line 76.
KeepAlive_Request(k) ==
    /\ k \in 1..Len(keepalives)
    /\ keepalives[k] = "request"
    /\ \E err \in KeepAliveResults :
          /\ keepaliveErr' = err
          /\ keepalives' = [keepalives EXCEPT ![k] = AfterKeepAlive(err)]
    /\ UNCHANGED <<script, polled, evCall, lpc, channelID, inflight, pollErr,
                   pendingEvents, channel, closed, cancelled, emitted, received,
                   eventsCtr, eventsMu, eventsStopCh>>
    /\ UNCHANGED <<vars, cookieVars>>

\* Faulty variant of KeepAlive_Timer: the goroutine does not return at line 79
\* and goes on with its loop after it has taken the stop signal.
KeepAlive_TimerAfterStop(k) ==
    /\ k \in 1..Len(keepalives)
    /\ keepalives[k] \in {"select", "stopped"}
    /\ keepalives' = [keepalives EXCEPT ![k] = "request"]
    /\ UNCHANGED <<script, polled, evCall, lpc, channelID, inflight, pollErr,
                   pendingEvents, channel, closed, cancelled, emitted, received,
                   eventsCtr, eventsMu, eventsStopCh>>
    /\ UNCHANGED <<vars, cookieVars, keepaliveErr>>

\* The keepalive goroutine, line 80: time.After fires, the next Request starts.
KeepAlive_Timer(k) ==
    /\ k \in 1..Len(keepalives)
    /\ keepalives[k] = "select"
    /\ keepalives' = [keepalives EXCEPT ![k] = "request"]
    /\ UNCHANGED <<script, polled, evCall, lpc, channelID, inflight, pollErr,
                   pendingEvents, channel, closed, cancelled, emitted, received,
                   eventsCtr, eventsMu, eventsStopCh>>
    /\ UNCHANGED <<vars, cookieVars, keepaliveErr>>

\* The application cancels the context it gave to Events.
Cancel(l) ==
    /\ evCall[l] # "none"
    /\ ~cancelled[l]
    /\ cancelled' = [cancelled EXCEPT ![l] = TRUE]
    /\ UNCHANGED <<script, polled, evCall, lpc, channelID, inflight, pollErr,
                   pendingEvents, channel, closed, emitted, received, eventsCtr,
                   eventsMu, eventsStopCh, keepalives>>
    /\ UNCHANGED <<vars, cookieVars, keepaliveErr>>

\* The consumer receives the oldest item of the channel Events returned.
Receive(l) ==
    /\ evCall[l] = "returned"
    /\ channel[l] # << >>
    /\ received' = [received EXCEPT ![l] = Append(@, Head(channel[l]))]
    /\ channel' = [channel EXCEPT ![l] = Tail(@)]
    /\ UNCHANGED <<script, polled, evCall, lpc, channelID, inflight, pollErr,
                   pendingEvents, closed, cancelled, emitted, eventsCtr, eventsMu,
                   eventsStopCh, keepalives>>
    /\ UNCHANGED <<vars, cookieVars, keepaliveErr>>

\* The steps of the goroutine of listener l, the Events call included.
ListenerStep(l) ==
    \/ Events(l)
    \/ startEventSessionKeepAlive(l)
    \/ requestEvent(l)
    \/ Run_EmitError(l)
    \/ Run_Sleep(l)
    \/ Run_EmitEvent(l)
    \/ Run_Close(l)
    \/ stopEventSessionKeepAlive(l)

NextEvents ==
    \/ \E l \in Listeners :
        \/ Events(l)
        \/ startEventSessionKeepAlive(l)
        \/ requestEvent(l)
        \/ Run_EmitError(l)
        \/ Run_Sleep(l)
        \/ Run_EmitEvent(l)
        \/ Run_Close(l)
        \/ stopEventSessionKeepAlive(l)
        \/ stopEventSessionKeepAlive_Send(l)
        \/ Cancel(l)
        \/ Receive(l)
    \/ \E k \in KeepAlives :
        \/ KeepAlive_Request(k)
        \/ KeepAlive_Timer(k)

\* One listener with every script of the router.
SpecEvents == InitEvents /\ [][NextEvents]_allVars

\* Every listener started by the application.
SpecKeepAlive == InitKeepAlive /\ [][NextEvents]_allVars

\* Fair scheduling of the goroutines: a listener or a keepalive goroutine that
\* can go on taking a step eventually takes one, and a stop signal that the
\* keepalive goroutine can receive again and again is eventually received.
\* Nothing is assumed of the consumer or of the cancellation.
FairEvents ==
    /\ SpecEvents
    /\ \A l \in Listeners : WF_allVars(ListenerStep(l))
    /\ \A l \in Listeners : SF_allVars(stopEventSessionKeepAlive_Send(l))
    /\ \A k \in KeepAlives : WF_allVars(KeepAlive_Request(k))

\* The listeners of a stop and of a start that meet at the mutex: all but one.
HandshakeListeners == 1..(NumListeners - 1)

InitHandshake ==
    /\ impl = "authenticate"
    /\ SessionIdle
    /\ script \in {f \in [HandshakeListeners -> ShortScripts] :
                      Cardinality({l \in HandshakeListeners : f[l] # << >>}) <= 1}
    /\ EventsIdle
    /\ CookieIdle

SpecHandshake == InitHandshake /\ [][NextEvents]_allVars

\* The scheduling of FairEvents for these listeners; the Request of the
\* keepalive goroutine eventually returns.
FairHandshake ==
    /\ SpecHandshake
    /\ \A l \in Listeners : WF_allVars(ListenerStep(l))
    /\ \A l \in Listeners : SF_allVars(stopEventSessionKeepAlive_Send(l))
    /\ \A k \in KeepAlives : WF_allVars(KeepAlive_Request(k))

-----------------------------------------------------------------------------
(* findSessidCookie on its own *)

\* The longest prefix P of a cookie name P + "/sessid", in tokens.
MaxNameTokens == 2

NameTokens == {"TestCookie", "c0ffee", patchedSessidCookieNameSuffix, sessidCookieNameSuffix}
CookieValues == {<<"value123">>, <<"1">>}

\* The Set-Cookie line "P/sessid=v; Path=/"; net/http keeps the attributes
\* apart from the name and the value.
SessidLineOf(P, v) == [name |-> P \o <<sessidCookieNameSuffix>>, value |-> v]

\* The headers of a login answer: the sessid line, alone or after another line.
CookieHeaders ==
    { pre \o <<SessidLineOf(P, v)>> :
        pre \in {<< >>, <<OtherLine>>},
        P \in SeqsUpTo(NameTokens, MaxNameTokens),
        v \in CookieValues }

InitCookie ==
    /\ impl = "authenticate"
    /\ SessionIdle
    /\ script = << >>
    /\ EventsIdle
    /\ sent \in CookieHeaders
    /\ resHeader = sent
    /\ found = NotFound

\* findSessidCookie(res), lines 253-274: the header is patched in place, the
\* cookies are parsed from the patched header, the first patched one returns.
FindSessidCookie ==
    /\ ~found.called
    /\ resHeader' = PatchSetCookie(resHeader)
    /\ found' = LET r == findSessidCookie([setCookie |-> resHeader])
                IN  [called |-> TRUE, ok |-> r.ok, cookie |-> r.cookie]
    /\ UNCHANGED <<sent, vars, eventVars>>

NextCookie == FindSessidCookie

SpecCookie == InitCookie /\ [][NextCookie]_allVars

-----------------------------------------------------------------------------
(* Vocabulary of the properties *)

Running == {p \in Procs : pc[p] # "idle" /\ pc[p] # "done"}

\* p is inside a login: the request is in flight, or its result is being stored.
InLogin(p) ==
    pc[p] \in {"loginWait", "setCred", "setSessid", "setVersion",
               "storeContextID", "storeSessid", "storeVersion"}

LoginInFlight(p) == net[p].dir = "req" /\ net[p].login

\* p went through the initialization of its call without an error.
PastInit(p) == pc[p] \in {"marshal", "newReq", "sendWait"} \/ sends[p] >= 1

\* Successful renewals that were started for expected version v.
Wins(v) == {i \in 1..Len(wonLog) : wonLog[i] = v}

Skipped == [renewed |-> FALSE, err |-> Nil]
Renewed == [renewed |-> TRUE, err |-> Nil]

-----------------------------------------------------------------------------
(* C1 *)

\* C1 (as stated): whatever the number of concurrent first calls on a session
\* of version 0, the initializations send exactly one login request.
C1_OneLoginAttempt == initAttempts <= 1

\* C1 (amended): for any number of concurrent first calls on a session of
\* version 0, at most one initialization login succeeds and it takes the version
\* from 0 to 1 (never to 2); an initialization sends a login request beyond the
\* first one only after an initialization login failed, so that exactly one
\* login attempt is made when none fails; a call that got past its
\* initialization sees version >= 1.
C1_OneInitLoginSucceeds ==
    /\ initAttempts <= initFailures + 1
    /\ Cardinality(Wins(0)) <= 1
    /\ \A i \in Wins(0) : i = 1
    /\ \A p \in Procs : PastInit(p) =>
          /\ version >= 1
          /\ Cardinality(Wins(0)) = 1
          /\ initAttempts = initFailures + 1

\* Every caller ran the initialization renewal concurrently, one of them logged in
\* and the others skipped: one login request, version 1.
C1_Witness ==
    /\ \A p \in Procs : pc[p] = "marshal" /\ ret[p].err = Nil
    /\ \E p \in Procs : ret[p] = Renewed /\ \A q \in Procs \ {p} : ret[q] = Skipped
    /\ initAttempts = 1
    /\ version = 1

-----------------------------------------------------------------------------
(* C2 *)

\* C2: a call whose first authenticated send is answered with code 13 asks for
\* exactly one renewal and resends once; the answer to the resend, code 13
\* included, ends the call: no further renewal, no further send.
C2_ResendEndsTheCall ==
    [][\A p \in Procs :
          (pc[p] = "sendWait" /\ sends[p] = 2 /\ pc'[p] # "sendWait") =>
              /\ pc'[p] = "done"
              /\ renewals'[p] = 1
              /\ sends'[p] = 2]_vars

-----------------------------------------------------------------------------
(* C3 *)

\* C3: under every interleaving and every sequence of responses a call makes at
\* most two authenticated sends and asks for at most one renewal in its retry
\* loop, a skipped renewal included.
C3_AtMostTwoSends == \A p \in Procs : sends[p] <= 2 /\ renewals[p] <= 1

-----------------------------------------------------------------------------
(* C4 *)

\* C4: a renewal asked for an expected version that is no longer the current one
\* performs no login: whoever is inside a login expects the current version, no
\* two callers are inside a login together, and for every version v at most one
\* login started for v succeeds (it makes the version v+1, and the other callers
\* that failed with v skip).
C4_StaleRenewalSkips ==
    /\ \A p \in Procs : InLogin(p) => expected[p] = version
    /\ \A p, q \in Procs : (InLogin(p) /\ InLogin(q)) => p = q
    /\ \A v \in 0..version : Cardinality(Wins(v)) <= 1
    /\ \A i \in 1..Len(wonLog) : wonLog[i] = i - 1

\* Two calls sent with version 1 were both answered 13; one logged in (version 2)
\* and the other one, whose expected version 1 is stale, skipped.
C4_Witness ==
    \E p, q \in Procs :
        /\ p # q
        /\ renewals[p] = 1 /\ renewals[q] = 1
        /\ usedVersion[p] = 1 /\ usedVersion[q] = 1
        /\ pc[p] = "newReq" /\ pc[q] = "newReq"
        /\ ret[p] = Renewed /\ ret[q] = Skipped
        /\ wonLog = <<0, 1>>
        /\ version = 2

-----------------------------------------------------------------------------
(* C5 *)

\* C5: at every moment at most one login exchange is in flight.
C5_OneLoginInFlight == Cardinality({p \in Procs : LoginInFlight(p)}) <= 1

\* A login is in flight while every other caller waits for the renewal lock with
\* an expected version that is still the current one.
C5_Witness ==
    \E p \in Procs :
        /\ LoginInFlight(p)
        /\ \A q \in Procs \ {p} :
              pc[q] \in {"authLock", "renewLock"} /\ expected[q] = version

-----------------------------------------------------------------------------
(* C6 *)

\* C6: when the renew condition is false once the renewal lock is held, the
\* renewal returns (false, nil), sends no login request and leaves token, cookie
\* and version as they are.
C6_FalseConditionIsNoOp ==
    [][\A p \in Procs :
          (pc[p] \in {"authCheck", "renewCheck"} /\ version # expected[p]
              /\ pc'[p] # pc[p]) =>
              /\ ret'[p] = Skipped
              /\ net'[p] = net[p]
              /\ ~LoginInFlight(p)'
              /\ initAttempts' = initAttempts
              /\ issued' = issued
              /\ contextID' = contextID /\ sessid' = sessid /\ version' = version
              /\ wonLog' = wonLog
              /\ result'[p] = NotReturned]_vars

\* A retry renewal was skipped: the caller goes on to resend.
C6_Witness ==
    \E p \in Procs :
        /\ ret[p] = Skipped
        /\ renewals[p] = 1
        /\ pc[p] = "newReq"
        /\ version > usedVersion[p]

-----------------------------------------------------------------------------
(* C7 *)

NoCredentials == [authorization |-> EmptyString, cookie |-> EmptyString, version |-> 0]

\* C7: whenever GetCredentials can return (no writer holds the lock), it returns
\* version 0 with empty authorization and cookie exactly when no renewal has
\* succeeded yet; after a successful renewal the version is at least 1 and both
\* headers carry a stored, non-empty token and cookie.
C7_ReadConsistency ==
    CanRLock(rw) =>
        /\ (GetCredentials = NoCredentials) <=> (wonLog = << >>)
        /\ (GetCredentials.version = 0) <=> (GetCredentials.authorization = EmptyString)
        /\ (GetCredentials.version = 0) <=> (GetCredentials.cookie = EmptyString)
        /\ wonLog # << >> =>
              /\ GetCredentials.version >= 1
              /\ contextID # EmptyString
              /\ GetCredentials.authorization = Authorization(contextID)
              /\ HasSuffix(sessid.name, sessidCookieNameSuffix)
              /\ sessid.value # EmptyString
              /\ GetCredentials.cookie = CookieHeader(sessid)

\* Two renewals succeeded and a read returns version 2 with the second token.
C7_Witness ==
    /\ CanRLock(rw)
    /\ Len(wonLog) = 2
    /\ GetCredentials.version = 2
    /\ GetCredentials.authorization = <<"X-Sah", " ", "2">>
    /\ GetCredentials.cookie = <<"c0ffee", "/sessid", "=", "2">>

-----------------------------------------------------------------------------
(* C8 *)

\* C8: the version changes only in the step in which a renewal returns success,
\* and then by exactly 1; it never decreases; the number of successful renewals
\* always equals the version.
C8_VersionCountsRenewals ==
    /\ [](version = Len(wonLog))
    /\ [][\/ (version' = version /\ wonLog' = wonLog)
          \/ (version' = version + 1 /\ Len(wonLog') = Len(wonLog) + 1)]_vars

\* Two renewals succeeded although a login failed in between or before.
C8_Witness == version = 2 /\ Len(wonLog) = 2 /\ initFailures >= 1

-----------------------------------------------------------------------------
(* C9 *)

\* The login response r is one of the failures: transport error, status other
\* than 200, error envelope, empty contextID, no sessid cookie.
LoginFails(r) ==
    \/ ~r.transport
    \/ r.status # StatusOK
    \/ r.body.hasError
    \/ r.body.contextID = EmptyString
    \/ ~\E i \in 1..Len(r.setCookie) : Contains(r.setCookie[i].name, sessidCookieNameSuffix)

\* The kinds of error a failed login r may return.
LoginFailureKinds(r) ==
    IF ~r.transport THEN {"transport"}
    ELSE IF r.status = StatusUnauthorized THEN {"ErrInvalidCredentials", "ErrInvalidPassword"}
    ELSE IF r.status # StatusOK THEN {"status"}
    ELSE IF r.body.hasError THEN {"Error", "Errors"}
    ELSE IF r.body.contextID = EmptyString THEN {"ErrEmptyContextID"}
    ELSE {"ErrEmptySessidCookie"}

\* C9: when a login fails, version, token and cookie stay as they are, the call
\* returns the error of that failure, and the renewal lock is free again.
C9_FailedLoginChangesNothing ==
    [][\A p \in Procs :
          (pc[p] = "loginWait" /\ pc'[p] # "loginWait" /\ LoginFails(net'[p])) =>
              /\ contextID' = contextID /\ sessid' = sessid /\ version' = version
              /\ wonLog' = wonLog
              /\ pc'[p] = "done"
              /\ ret'[p].err = result'[p]
              /\ result'[p].t \in LoginFailureKinds(net'[p])
              /\ authMu' = NoProc
              /\ rw' = NoProc]_vars

\* An initialization login failed for want of a sessid cookie and its call
\* returned that error; a later renewal of another caller went through.
C9_Witness ==
    \E p, q \in Procs :
        /\ pc[p] = "done"
        /\ result[p] = ErrEmptySessidCookie
        /\ sends[p] = 0
        /\ ret[q] = Renewed
        /\ CanRLock(rw)
        /\ GetCredentials.version = 1

-----------------------------------------------------------------------------
(* C10 *)

\* The response r to an authenticated send is a failure that holds no code 13.
SendFailsWithout13(r) ==
    \/ ~r.transport
    \/ r.status # StatusOK
    \/ /\ r.body.hasError
       /\ r.body.error # 0 \/ Len(r.body.errors) > 0
       /\ r.body.error # PermissionDeniedErrorCode
       /\ \A i \in 1..Len(r.body.errors) : r.body.errors[i].code # PermissionDeniedErrorCode

SendFailureKinds(r) ==
    IF ~r.transport THEN {"transport"}
    ELSE IF r.status # StatusOK THEN {"status"}
    ELSE {"Error", "Errors"}

\* C10: a send that fails with a transport error, a status other than 200 or an
\* application error without code 13 ends the call with that error: no renewal,
\* no resend; a call that asked for no renewal made at most one send.
C10_OtherErrorsReturn ==
    /\ [](\A p \in Procs : renewals[p] = 0 => sends[p] <= 1)
    /\ [][\A p \in Procs :
            (pc[p] = "sendWait" /\ pc'[p] # "sendWait" /\ SendFailsWithout13(net'[p])) =>
                /\ pc'[p] = "done"
                /\ result'[p].t \in SendFailureKinds(net'[p])
                /\ result'[p].t = "status" => result'[p].code = net'[p].status
                /\ renewals'[p] = renewals[p]
                /\ sends'[p] = sends[p]
                /\ ~LoginInFlight(p)']_vars

\* A call whose only send was answered with status 500 returned that error.
C10_Witness ==
    \E p \in Procs :
        /\ pc[p] = "done"
        /\ net[p].dir = "resp" /\ net[p].status = 500
        /\ result[p] = StatusError(500)
        /\ sends[p] = 1
        /\ renewals[p] = 0

-----------------------------------------------------------------------------
(* C11 *)

\* C11: when a call finds version 0 and its initialization renewal fails, the
\* call returns the error of that renewal in the same step and sends no
\* authenticated request, then or later.
C11_InitFailureReturns ==
    /\ [](\A p \in Procs :
            (ret[p] # NoReturn /\ ret[p].err # Nil /\ renewals[p] = 0) =>
                /\ pc[p] = "done"
                /\ result[p] = ret[p].err
                /\ sends[p] = 0)
    /\ [][\A p \in Procs :
            (retTo[p] = "init" /\ ret'[p] # ret[p] /\ ret'[p].err # Nil) =>
                /\ pc'[p] = "done"
                /\ result'[p] = ret'[p].err
                /\ result'[p].t \in LoginFailureKinds(net'[p])
                /\ sends'[p] = 0
                /\ net'[p].dir # "req"]_vars

\* The router refused the credentials of every first call: each call returned
\* the login error without an authenticated send, and the version is still 0.
C11_Witness ==
    /\ \A p \in Procs :
          /\ pc[p] = "done"
          /\ result[p] \in {ErrInvalidCredentials, ErrInvalidPassword}
          /\ sends[p] = 0
    /\ version = 0
    /\ initFailures = NumCallers

-----------------------------------------------------------------------------
(* C12 *)

\* The initialization of p's call is over: p went on to its authenticated
\* request, or its call returned the error of its initialization login.
InitOver(p) == PastInit(p) \/ (pc[p] = "done" /\ ret[p].err # Nil /\ sends[p] = 0)

\* C12: under fair scheduling and a router that answers, no first call waits
\* for the initialization forever; when the router accepts the initialization
\* login (no initialization login fails), every one of the concurrent first
\* calls eventually sends its request with credentials of version >= 1.
C12_EveryCallProceeds ==
    /\ [](\A p \in Procs : pc[p] = "sendWait" => usedVersion[p] >= 1 /\ version >= 1)
    /\ \A p \in Procs : <>InitOver(p)
    /\ \A p \in Procs : (<>(initFailures > 0)) \/ <>(sends[p] >= 1 /\ version >= 1)

\* Every first call is waiting for the answer to its request, sent with version 1
\* after a single initialization login.
C12_Witness ==
    /\ \A p \in Procs : pc[p] = "sendWait" /\ usedVersion[p] = 1 /\ sends[p] = 1
    /\ initAttempts = 1
    /\ initFailures = 0

-----------------------------------------------------------------------------
(* Vocabulary of the listener properties *)

IsPrefix(a, b) == Len(a) <= Len(b) /\ a = SubSeq(b, 1, Len(a))

\* ChannelStale: an application error with description "Function execution
\* failed" or info "channel does not exist".
ChannelStale(err) ==
    /\ err.t \in {"Error", "Errors"}
    /\ \E i \in 1..Len(err.errors) :
          \/ err.errors[i].description = "Function execution failed"
          \/ err.errors[i].info = "channel does not exist"

\* The poll of l comes back in this step.
PollReturns(l) == lpc[l] = "poll" /\ (polled'[l] # polled[l] \/ lpc'[l] # "poll")

\* The error the poll of l comes back with in this step (Nil: a response).
PolledError(l) ==
    IF polled'[l] > polled[l] THEN script[l][polled'[l]].err ELSE ContextCanceled

\* Run is returning: its deferred calls are running or have run.
TearingDown(l) == lpc[l] \in {"close", "stopLock", "stopSend", "done"}

ActiveKeepAlives == {k \in 1..Len(keepalives) : keepalives[k] # "stopped"}

\* Listeners whose Events was called and whose Run has not returned.
ActiveListeners == {l \in Listeners : evCall[l] # "none" /\ lpc[l] # "done"}

-----------------------------------------------------------------------------
(* C13 *)

ScenarioItems == <<EventItem("e1"), ErrorItem(TransportError), EventItem("e2")>>

\* C13: when the polls are answered, in this order, with a stale channel, the
\* event e1 on channel 5, a transport error and the event e2 on channel 5, the
\* consumer receives e1, then an error item carrying the transport error, then
\* e2, in that order and nothing else; the stale channel gives no item.
C13_ScenarioObserved ==
    \A l \in DOMAIN script :
        script[l] = Scenario =>
            /\ IsPrefix(received[l], ScenarioItems)
            /\ IsPrefix(emitted[l], ScenarioItems)
            /\ (polled[l] = Len(Scenario) /\ lpc[l] = "poll" /\ ~cancelled[l]
                    /\ channel[l] = << >>)
                   => received[l] = ScenarioItems

\* The four answers were consumed and the consumer holds the three items.
C13_Witness ==
    /\ script[1] = Scenario
    /\ polled[1] = Len(Scenario)
    /\ ~cancelled[1]
    /\ received[1] = ScenarioItems

-----------------------------------------------------------------------------
(* C14 *)

\* C14: whatever the answers to the polls, no item sent to the consumer carries
\* a ChannelStale error; the step in which a poll comes back ChannelStale sends
\* no item and puts the next poll in flight at once with channel id 0.
C14_StaleIsSilent ==
    /\ [](\A l \in Listeners : \A i \in 1..Len(emitted[l]) :
             ~ChannelStale(emitted[l][i].error))
    /\ [](\A l \in Listeners : IsPrefix(received[l], emitted[l]))
    /\ [][\A l \in DOMAIN script :
            (PollReturns(l) /\ ChannelStale(PolledError(l))) =>
                /\ emitted'[l] = emitted[l]
                /\ channel'[l] = channel[l]
                /\ lpc'[l] = "poll"
                /\ inflight'[l] = 0]_allVars

\* After an event on channel 5 the poll sent with channel id 5 came back
\* "channel does not exist": the next poll is in flight with channel id 0 and the
\* only item is the event.
C14_Witness ==
    /\ script[1] = <<PollOK(5, <<"e1">>), StaleInfo>>
    /\ polled[1] = 2
    /\ lpc[1] = "poll"
    /\ channelID[1] = 5
    /\ inflight[1] = 0
    /\ emitted[1] = <<EventItem("e1")>>

-----------------------------------------------------------------------------
(* C15 *)

\* C15: when a poll comes back with an error that is not ChannelStale and the
\* context is not done, the listener goes on to send one error item carrying
\* that error, sets the channel id to 0, sleeps and polls again with channel id
\* 0; when the context is done at that point it returns and sends no item, and
\* error items are sent by this path only.
C15_ErrorItemThenRetry ==
    [][\A l \in DOMAIN script :
          /\ (PollReturns(l) /\ PolledError(l) # Nil /\ ~ChannelStale(PolledError(l))
                 /\ ~cancelled[l]) =>
                /\ lpc'[l] = "emitError"
                /\ pollErr'[l] = PolledError(l)
                /\ emitted'[l] = emitted[l]
          /\ (PollReturns(l) /\ PolledError(l) # Nil /\ ~ChannelStale(PolledError(l))
                 /\ cancelled[l]) =>
                /\ lpc'[l] = "close"
                /\ emitted'[l] = emitted[l]
          /\ (lpc[l] = "emitError" /\ lpc'[l] # "emitError") =>
                /\ emitted'[l] = Append(emitted[l], ErrorItem(pollErr[l]))
                /\ channelID'[l] = 0
                /\ lpc'[l] = "sleep"
          /\ (lpc[l] = "sleep" /\ lpc'[l] # "sleep") =>
                /\ lpc'[l] = "poll"
                /\ inflight'[l] = 0
                /\ emitted'[l] = emitted[l]
          /\ TearingDown(l) => (TearingDown(l)' /\ emitted'[l] = emitted[l])
          /\ (emitted'[l] # emitted[l] /\ emitted'[l][Len(emitted'[l])].error # Nil) =>
                lpc[l] = "emitError"]_allVars

\* A poll came back with status 500: its error item was sent and the next poll
\* is in flight with channel id 0.
C15_Witness ==
    /\ emitted[1] = <<ErrorItem(StatusError(500))>>
    /\ polled[1] = 1
    /\ lpc[1] = "poll"
    /\ inflight[1] = 0
    /\ ~cancelled[1]

-----------------------------------------------------------------------------
(* C16 *)

\* C16: once the context of a listener is done, no item, event or error, is
\* sent to its channel any more.
C16_NoItemAfterCancel ==
    [][\A l \in Listeners : cancelled[l] => emitted'[l] = emitted[l]]_allVars

-----------------------------------------------------------------------------
(* C17 *)

\* C17: once the context of a listener is done, its Run eventually returns:
\* the channel is closed and the reference count decremented, whether the
\* consumer goes on receiving or not.
C17_CancelTerminates ==
    \A l \in Listeners : cancelled[l] ~> (lpc[l] = "done" /\ closed[l])

-----------------------------------------------------------------------------
(* C18 *)

\* C18: Run returns, and the channel is closed, only when the context is done:
\* whatever errors the polls came back with, and however many in a row, a
\* listener whose context is not done is still in its loop with an open channel.
C18_OnlyCancelTerminates ==
    \A l \in Listeners : (TearingDown(l) \/ closed[l]) => cancelled[l]

\* Two polls in a row failed, a refused login among them; both error items
\* were sent and the listener polls on.
C18_Witness ==
    /\ Len(emitted[1]) = 2
    /\ emitted[1][1].error # Nil
    /\ emitted[1][2] = ErrorItem(ErrInvalidCredentials)
    /\ lpc[1] = "poll"
    /\ ~closed[1]

-----------------------------------------------------------------------------
(* C19 *)

\* C19: at most one keepalive goroutine is active; whenever no start or stop is
\* under way one is active exactly when the reference count is at least 1,
\* and the count is the number of active listeners: with three listeners
\* started and two stopped one keepalive goroutine is active, with the last one
\* stopped none is.
C19_KeepAliveWhileListeners ==
    /\ Cardinality(ActiveKeepAlives) <= 1
    /\ eventsMu = NoProc => (Cardinality(ActiveKeepAlives) = 1 <=> eventsCtr >= 1)
    /\ (eventsMu = NoProc /\ \A l \in Listeners : evCall[l] # "spawned") =>
          /\ eventsCtr = Cardinality(ActiveListeners)
          /\ Cardinality(ActiveKeepAlives) = 1 <=> ActiveListeners # {}

\* Three listeners were started, two have stopped: the first keepalive
\* goroutine is still the only one.
C19_Witness ==
    /\ \A l \in Listeners : evCall[l] = "returned"
    /\ Cardinality({l \in Listeners : lpc[l] = "done"}) = 2
    /\ Cardinality(ActiveListeners) = 1
    /\ eventsCtr = 1
    /\ keepalives \in {<<"request">>, <<"select">>}

-----------------------------------------------------------------------------
(* C20 *)

\* C20: the stop that takes the reference count to 0 does not return before
\* the keepalive goroutine has received the stop signal: it keeps the mutex and
\* waits, and the step in which it returns is the one in which the goroutine
\* takes the signal and ends.
C20_StopWaitsForKeepAlive ==
    /\ [](\A l \in Listeners : lpc[l] = "stopSend" =>
             /\ eventsMu = l
             /\ eventsCtr = 0
             /\ eventsStopCh \in ActiveKeepAlives)
    /\ [][\A l \in Listeners :
            /\ (lpc[l] = "stopLock" /\ lpc'[l] # "stopLock" /\ eventsCtr' = 0) =>
                  /\ lpc'[l] = "stopSend"
                  /\ keepalives' = keepalives
            /\ (lpc[l] = "stopSend" /\ lpc'[l] # "stopSend") =>
                  /\ keepalives[eventsStopCh] = "select"
                  /\ keepalives'[eventsStopCh] = "stopped"
                  /\ lpc'[l] = "done"
                  /\ eventsMu' = NoProc]_allVars

\* All three listeners have stopped; the last stop ended the keepalive goroutine.
C20_Witness ==
    /\ \A l \in Listeners : lpc[l] = "done"
    /\ eventsCtr = 0
    /\ eventsMu = NoProc
    /\ ActiveKeepAlives = {}
    /\ Len(keepalives) >= 1

-----------------------------------------------------------------------------
(* C21 *)

\* No Set-Cookie line of r has a name that ends with the sessid suffix.
NoSessidLine(r) ==
    \A i \in 1..Len(r.setCookie) : ~HasSuffix(r.setCookie[i].name, sessidCookieNameSuffix)

\* C21: a login answered with status 401 gives the invalid-credentials error
\* (ErrInvalidCredentials, ErrInvalidPassword in the older client); a login
\* answered 200 with an empty contextID gives ErrEmptyContextID, and one answered
\* 200 with a contextID and no cookie named ...sessid gives ErrEmptySessidCookie;
\* the call that asked for the login returns that error in the same step and
\* sends no other login.
C21_LoginErrors ==
    [][\A p \in Procs :
          (pc[p] = "loginWait" /\ pc'[p] # "loginWait" /\ net'[p].transport) =>
              /\ net'[p].status = StatusUnauthorized =>
                    /\ result'[p] = IF impl = "authenticate" THEN ErrInvalidCredentials
                                    ELSE ErrInvalidPassword
                    /\ pc'[p] = "done"
              /\ (net'[p].status = StatusOK /\ ~net'[p].body.hasError
                    /\ net'[p].body.contextID = EmptyString) =>
                    /\ result'[p] = ErrEmptyContextID
                    /\ pc'[p] = "done"
              /\ (net'[p].status = StatusOK /\ ~net'[p].body.hasError
                    /\ net'[p].body.contextID # EmptyString /\ NoSessidLine(net'[p])) =>
                    /\ result'[p] = ErrEmptySessidCookie
                    /\ pc'[p] = "done"
              /\ pc'[p] = "done" =>
                    /\ ~LoginInFlight(p)'
                    /\ initAttempts' = initAttempts
                    /\ version' = version]_vars

\* A login was answered 200 with a sessid cookie and an empty contextID: the
\* call returned ErrEmptyContextID.
C21_Witness ==
    \E p \in Procs :
        /\ pc[p] = "done"
        /\ result[p] = ErrEmptyContextID
        /\ net[p].dir = "resp" /\ net[p].status = StatusOK
        /\ net[p].body.contextID = EmptyString
        /\ ~NoSessidLine(net[p])

-----------------------------------------------------------------------------
(* C23 *)

-----------------------------------------------------------------------------
(* C24 *)

\* C24: every send of a call after its first one, that is every resend that
\* follows a code 13, is built from credentials of a version strictly greater
\* than the version of the send before, whether the call logged in itself or its
\* renewal was skipped.
C24_ResendUsesNewerVersion ==
    [][\A p \in Procs :
          (pc[p] = "newReq" /\ pc'[p] = "sendWait" /\ sends[p] >= 1) =>
              /\ usedVersion'[p] > usedVersion[p]
              /\ net'[p].version = usedVersion'[p]
              /\ ret[p] \in {Renewed, Skipped}]_vars

\* Two calls sent with version 1 and were answered 13; one logged in, the
\* renewal of the other was skipped, and both have resent with version 2.
C24_Witness ==
    \E p, q \in Procs :
        /\ ret[p] = Renewed /\ ret[q] = Skipped
        /\ pc[p] = "sendWait" /\ pc[q] = "sendWait"
        /\ sends[p] = 2 /\ sends[q] = 2
        /\ net[p].version = 2 /\ net[q].version = 2

-----------------------------------------------------------------------------
(* C25 *)

\* C25: an answer whose error envelope holds several errors, the first of a
\* code other than 13, ends the call with that error, without renewal or
\* resend, even when a later error of the envelope has code 13.
C25_FirstErrorDecides ==
    [][\A p \in Procs :
          (pc[p] = "sendWait" /\ pc'[p] # "sendWait"
              /\ net'[p].transport /\ net'[p].status = StatusOK
              /\ net'[p].body.error = 0
              /\ Len(net'[p].body.errors) > 0
              /\ net'[p].body.errors[1].code # PermissionDeniedErrorCode) =>
              /\ pc'[p] = "done"
              /\ renewals'[p] = renewals[p]]_vars

-----------------------------------------------------------------------------
(* C29 *)

\* C29: a call builds its authenticated request only when the session is of
\* version >= 1, and every authenticated request in flight carries the
\* version, the token and the cookie of a snapshot of version >= 1; no call ends
\* for want of credentials.
C29_NoSendAtVersionZero ==
    \A p \in Procs :
        /\ pc[p] \in {"marshal", "newReq"} => version >= 1
        /\ (net[p].dir = "req" /\ ~net[p].login) =>
              /\ net[p].version >= 1
              /\ net[p].header.value # EmptyString
              /\ net[p].cookie # EmptyString
        /\ result[p] # errSessionNotInitialized
        /\ result[p].t # "panic"

\* A resend is in flight with the credentials of version 2.
C29_Witness ==
    \E p \in Procs :
        /\ pc[p] = "sendWait"
        /\ net[p].dir = "req" /\ ~net[p].login
        /\ net[p].version = 2
        /\ net[p].cookie = <<"c0ffee", "/sessid", "=", "2">>

-----------------------------------------------------------------------------
(* C30 *)

\* The token and the cookie the router gave with its n-th accepted login.
TokenOf(n) == <<ToString(n)>>
CookieOf(n) == <<"c0ffee", "/sessid", "=", ToString(n)>>

\* C30: the router gives a new token and a new cookie with every login it
\* accepts; a snapshot of version v always carries those of the v-th login, so
\* that two snapshots of the same version carry the same authorization and the
\* same cookie: whenever GetCredentials can return, and in every request built
\* from a snapshot.
C30_VersionDeterminesSnapshot ==
    /\ CanRLock(rw) =>
          /\ GetCredentials.version >= 1 =>
                /\ GetCredentials.authorization = Authorization(TokenOf(GetCredentials.version))
                /\ GetCredentials.cookie = CookieOf(GetCredentials.version)
          /\ GetCredentials.version = 0 =>
                /\ GetCredentials.authorization = EmptyString
                /\ GetCredentials.cookie = EmptyString
    /\ \A p, q \in Procs :
          (net[p].dir = "req" /\ ~net[p].login /\ net[q].dir = "req" /\ ~net[q].login
              /\ net[p].version = net[q].version) =>
              (net[p].header = net[q].header /\ net[p].cookie = net[q].cookie)
    /\ \A p \in Procs :
          (net[p].dir = "req" /\ ~net[p].login) => net[p].cookie = CookieOf(net[p].version)

\* Two calls have requests in flight that were built from two reads of version
\* 2, after two logins.
C30_Witness ==
    \E p, q \in Procs :
        /\ p # q
        /\ net[p].dir = "req" /\ ~net[p].login /\ net[p].version = 2
        /\ net[q].dir = "req" /\ ~net[q].login /\ net[q].version = 2
        /\ net[p].cookie = net[q].cookie
        /\ issued = 2

-----------------------------------------------------------------------------
(* C22 *)

\* C22: for every Set-Cookie line whose cookie name is P followed by "/sessid",
\* findSessidCookie returns a cookie that has the name and the value of the
\* line.
C22_CookieRoundTrip ==
    found.called =>
        /\ found.ok
        /\ found.cookie.name = sent[Len(sent)].name
        /\ found.cookie.value = sent[Len(sent)].value

-----------------------------------------------------------------------------
(* C26 *)

\* The channel id of the poll that l sends after n answers of the scenario, as
\* the claim gives it, and as Run and requestEvent compute it.
C26_StatedID(n) == IF n = 3 THEN 0 ELSE 5
C26_SentID(n) == IF n \in {2, 4} THEN 5 ELSE 0

\* C26 (as stated): in the scenario ChannelStale, {5, [e1]}, TransportError,
\* {5, [e2]}, the poll sent after the TransportError carries the channel id 0
\* and every other poll carries 5.
C26_OthersCarryFive ==
    \A l \in DOMAIN script :
        (script[l] = Scenario /\ inflight[l] # NoRequest) =>
            inflight[l] = C26_StatedID(polled[l])

\* C26 (amended): in that scenario the poll sent after the TransportError
\* carries the channel id 0, as do the first poll and the poll repeated after
\* ChannelStale; the polls sent after {5, [e1]} and after {5, [e2]} carry 5.
C26_ScenarioChannelIDs ==
    \A l \in DOMAIN script :
        (script[l] = Scenario /\ inflight[l] # NoRequest) =>
            inflight[l] = C26_SentID(polled[l])

\* The scenario was answered to its end, the consumer has the three items, and
\* the fifth poll is in flight with the channel id 5.
C26_Witness ==
    /\ 1 \in DOMAIN script
    /\ script[1] = Scenario
    /\ polled[1] = 4
    /\ inflight[1] = 5
    /\ received[1] = ScenarioItems

-----------------------------------------------------------------------------
(* C27 *)

\* The channel id that the answers so far allow in the next poll: the one of
\* the last answer when it is a success, 0 at the start and after a failure.
C27_Allowed(l) ==
    IF polled[l] = 0 THEN 0
    ELSE IF script[l][polled[l]].err = Nil THEN script[l][polled[l]].channelid
    ELSE 0

\* C27: the channel id sent in a poll is the one returned by the most recent
\* answer of the listener when that answer is a success, and 0 otherwise (first
\* poll, or last answer a failure, stale channel included); the channel id the
\* listener keeps is 0 or one the router returned.
C27_ChannelIDNotInvented ==
    \A l \in DOMAIN script :
        /\ inflight[l] # NoRequest => inflight[l] = C27_Allowed(l)
        /\ channelID[l] \in {0} \cup {script[l][i].channelid : i \in 1..polled[l]}

\* A poll is in flight with the channel id 7 that the answer before it
\* returned, after an earlier poll that failed.
C27_Witness ==
    /\ 1 \in DOMAIN script
    /\ polled[1] = 2
    /\ script[1][1].err # Nil
    /\ script[1][2] = PollOK(7, <<"e1", "e2">>)
    /\ inflight[1] = 7
    /\ lpc[1] = "poll"

-----------------------------------------------------------------------------
(* C28 *)

\* The events of the successful answers among the given ones, in order.
RECURSIVE C28_EventsOf(_)
C28_EventsOf(answers) ==
    IF answers = << >> THEN << >>
    ELSE (IF Head(answers).err = Nil THEN Head(answers).events ELSE << >>)
         \o C28_EventsOf(Tail(answers))

\* The events carried by the items of s that are not error items.
C28_Delivered(s) ==
    LET evs == SelectSeq(s, LAMBDA item : item.error = Nil)
    IN  [i \in 1..Len(evs) |-> evs[i].event]

C28_Waits(l) ==
    /\ lpc[l] = "emitEvent"
    /\ pendingEvents[l] # << >>
    /\ Len(channel[l]) = ChannelCapacity

-----------------------------------------------------------------------------
(* C31 *)

\* p is writing the fields of the session one after the other.
C31_Storing(p) == pc[p] \in {"setSessid", "setVersion", "storeSessid", "storeVersion"}

\* The stored token, cookie and version are those of one login (or of none).
C31_StoreWhole ==
    IF version = 0 THEN contextID = EmptyString /\ sessid = NoCookie
    ELSE contextID = TokenOf(version) /\ sessid.value = TokenOf(version)

\* The header a request carries for the authorization a.
C31_HeaderOf(a) == IF impl = "authenticate" THEN newRequestHeader(a) ELSE newRequestHeaderOld(a)

\* C31: no reader sees a session that is partly updated: while a login's
\* result is being written the exclusive lock is held by the writer, the fields
\* differ from those of one login only while no reader can take the lock, and
\* every request built from a snapshot carries the token and the cookie of the
\* login that produced the snapshot's version.
C31_NoPartialSnapshot ==
    /\ \A p \in Procs : C31_Storing(p) => (rw = p /\ ~CanRLock(rw))
    /\ ~C31_StoreWhole => ~CanRLock(rw)
    /\ \A p \in Procs :
          (net[p].dir = "req" /\ ~net[p].login) =>
              /\ net[p].header = C31_HeaderOf(Authorization(TokenOf(net[p].version)))
              /\ net[p].cookie = CookieOf(net[p].version)

\* The token of the second login is stored next to the cookie and the version
\* of the first, while another call waits to read the credentials.
C31_Witness ==
    \E p, q \in Procs :
        /\ C31_Storing(p)
        /\ contextID = TokenOf(2) /\ sessid.value = TokenOf(1) /\ version = 1
        /\ pc[q] = "newReq"

-----------------------------------------------------------------------------
(* C34 *)

\* C34: an answer that decodes and whose error code is zero or absent, with no
\* list of errors, is no error whatever its description and its info: the
\* call returns nil for it.
C34_ZeroCodeIsNoError ==
    [][\A p \in Procs :
          (pc[p] = "sendWait" /\ pc'[p] # "sendWait"
              /\ net'[p].transport /\ net'[p].status = StatusOK
              /\ Unmarshals(net'[p].body)
              /\ net'[p].body.error = 0
              /\ net'[p].body.errors = << >>) =>
              /\ pc'[p] = "done"
              /\ result'[p] = Nil]_vars

-----------------------------------------------------------------------------
(* C32 *)

\* C32: whatever the order of the starts and stops of the listeners, at most
\* one keepalive goroutine exists at any moment, and one is spawned only when
\* every one spawned before has ended, also when the start comes right after
\* the stop of the last listener.
C32_OneKeepAliveTask ==
    /\ [](Cardinality(ActiveKeepAlives) <= 1)
    /\ [][Len(keepalives') > Len(keepalives) =>
            /\ ActiveKeepAlives = {}
            /\ Len(keepalives') = Len(keepalives) + 1
            /\ eventsStopCh' = Len(keepalives')]_allVars

\* The last listener stopped and ended the first keepalive goroutine; the
\* start of another listener spawned the second one, the only one alive.
C32_Witness ==
    /\ Len(keepalives) = 2
    /\ keepalives[1] = "stopped"
    /\ keepalives[2] # "stopped"
    /\ eventsStopCh = 2
    /\ eventsCtr = 1
    /\ \E l \in Listeners : lpc[l] = "done" /\ evCall[l] = "returned"

-----------------------------------------------------------------------------
(* C33 *)

\* The Request of keepalive goroutine k comes back with an error in this step.
C33_KeepAliveFails(k) ==
    /\ k \in 1..Len(keepalives)
    /\ keepalives[k] = "request"
    /\ keepalives'[k] # "request"
    /\ keepaliveErr' # Nil

\* C33: a keepalive call that fails puts no item on the channel of any
\* listener, ends neither the keepalive goroutine nor a listener, and leaves the
\* reference count as it is; the goroutine goes on to wait for the next
\* interval.
C33_KeepAliveErrorOnlyLogged ==
    [][\A k \in KeepAlives :
          C33_KeepAliveFails(k) =>
              /\ keepalives'[k] = "select"
              /\ Len(keepalives') = Len(keepalives)
              /\ channel' = channel
              /\ emitted' = emitted
              /\ closed' = closed
              /\ lpc' = lpc
              /\ eventsCtr' = eventsCtr
              /\ eventsStopCh' = eventsStopCh]_allVars

\* After a keepalive call that failed, the goroutine has sent its next call,
\* a listener is still polling and no item was put on any channel.
C33_Witness ==
    /\ keepaliveErr # Nil
    /\ keepalives = <<"request">>
    /\ eventsCtr >= 1
    /\ \E l \in Listeners : lpc[l] = "poll"
    /\ \A l \in Listeners : emitted[l] = << >>

-----------------------------------------------------------------------------
(* C35 *)

\* C35: the reference count is never negative, and the teardown of a listener
\* decrements it only after the Events call of that listener has incremented
\* it.
C35_DecrementAfterOwnIncrement ==
    /\ eventsCtr >= 0
    /\ \A l \in Listeners : lpc[l] \in {"stopSend", "done"} => evCall[l] = "returned"

-----------------------------------------------------------------------------
(* C36 *)

\* C36: when the Request of the keepalive goroutine eventually returns, the
\* stop that signals the goroutine eventually returns and releases the mutex,
\* and an Events call that waits for the mutex eventually returns.
C36_StopHandshakeCompletes ==
    /\ \A l \in Listeners : (lpc[l] = "stopSend") ~> (lpc[l] = "done" /\ eventsMu # l)
    /\ \A l \in Listeners : (evCall[l] = "spawned") ~> (evCall[l] = "returned")

\* The last listener holds the mutex and waits to hand over the stop signal,
\* the keepalive goroutine is inside its Request, and the Events call of
\* another listener waits for the mutex.
C36_Witness ==
    \E l, m \in Listeners :
        /\ lpc[l] = "stopSend" /\ eventsMu = l
        /\ keepalives[eventsStopCh] = "request"
        /\ evCall[m] = "spawned"

-----------------------------------------------------------------------------
(* C37 *)

\* Keepalive goroutine k is inside a call through the Dispatcher.
C37_Calls(k) == k \in 1..Len(keepalives) /\ keepalives[k] = "request"

\* C37: the step in which the stop of the last listener returns is the step
\* in which the signalled keepalive goroutine ends, and a goroutine that has
\* ended never sends another keepalive call; a call made after that is the call
\* of a goroutine spawned by a later start.
C37_NoCallAfterStop ==
    /\ [][\A l \in Listeners :
            (lpc[l] = "stopSend" /\ lpc'[l] = "done") =>
                (~C37_Calls(eventsStopCh) /\ ~C37_Calls(eventsStopCh)')]_allVars
    /\ [][\A k \in KeepAlives :
            (k \in 1..Len(keepalives) /\ keepalives[k] = "stopped") =>
                (keepalives'[k] = "stopped" /\ ~C37_Calls(k)')]_allVars
    /\ [](\A k \in KeepAlives : C37_Calls(k) => k = Len(keepalives))

\* The first keepalive goroutine was stopped after a call of its own; the
\* goroutine of a later start is the one that calls.
C37_Witness ==
    /\ keepalives = <<"stopped", "request">>
    /\ eventsStopCh = 2
    /\ \E l \in Listeners : lpc[l] = "done" /\ evCall[l] = "returned"

-----------------------------------------------------------------------------
(* C38 *)

\* The loop of Run of listener l has ended and its deferred close has run.
C38_LoopOver(l) == lpc[l] \in {"stopLock", "stopSend", "done"}

\* C38: the channel of a listener is closed by the one step that follows the
\* end of its loop and stays closed; once it is closed no item is sent on
\* it, the consumer only takes out what it holds; it never holds more items than
\* its capacity.
C38_ClosedOnceAtTheEnd ==
    /\ [](\A l \in Listeners : closed[l] <=> C38_LoopOver(l))
    /\ [](\A l \in Listeners : Len(channel[l]) <= ChannelCapacity)
    /\ [][\A l \in Listeners :
            /\ (~closed[l] /\ closed'[l]) => (lpc[l] = "close" /\ lpc'[l] = "stopLock")
            /\ closed[l] =>
                  /\ closed'[l]
                  /\ emitted'[l] = emitted[l]
                  /\ Len(channel'[l]) <= Len(channel[l])]_allVars

\* Run has returned and closed the channel, which still holds an item that the
\* consumer has not received.
C38_Witness ==
    \E l \in Listeners :
        /\ closed[l]
        /\ lpc[l] = "done"
        /\ Len(channel[l]) = ChannelCapacity
        /\ Len(emitted[l]) > Len(received[l])

-----------------------------------------------------------------------------
(* C39 *)

\* p waits for a lock: the authentication mutex, or the lock of the session.
C39_WaitsForAuthMu(p) == impl = "authenticate" /\ pc[p] = "authLock"
C39_WaitsForSession(p) == pc[p] \in {"setCred", "renewLock", "newReq"}

\* C39: the two locks are taken in one order, the authentication mutex first
\* and the lock of the session inside it: nobody waits for the mutex while
\* holding the lock of the session, and the holder of the lock of the session
\* never waits.  With fair scheduling and a router that answers every request,
\* every lock that is held is released and every call that has started returns.
C39_NoDeadlock ==
    /\ [](\A p \in Procs : rw = p => ~C39_WaitsForAuthMu(p) /\ ~C39_WaitsForSession(p))
    /\ [](\A p \in Procs : (impl = "authenticate" /\ rw = p) => authMu = p)
    /\ \A p \in Procs : (rw = p) ~> (rw # p)
    /\ \A p \in Procs : (authMu = p) ~> (authMu # p)
    /\ \A p \in Procs : (pc[p] # "idle") ~> (pc[p] = "done")

\* One call holds the authentication mutex and waits for the answer to its
\* login while the other call waits for the mutex.
C39_Witness ==
    \E p, q \in Procs :
        /\ impl = "authenticate"
        /\ authMu = p /\ LoginInFlight(p)
        /\ C39_WaitsForAuthMu(q)
        /\ renewals[p] = 1 /\ renewals[q] = 1

====
